---- MODULE Spec2Model ----
(***************************************************************************)
(* State-machine model of validator-python/src/technology_detector.py:     *)
(* class TechnologyDetector (registry load, the three signal extractors,   *)
(* the confidence aggregator, the threshold decision, the result record,   *)
(* the validation report and the configured patterns).                     *)
(*                                                                         *)
(* Conventions.                                                            *)
(*   - A Python dict is a TLA+ function whose domain is its key set; a     *)
(*     Python list is a sequence.  dict.get(k, d) is Get(d0, k, d).  The   *)
(*     one dict whose insertion order the code's outcome depends on, a     *)
(*     profile's file_patterns, is the sequence of its <<key, value>>      *)
(*     items in that order.                                                *)
(*   - An exception that a function raises is the string of its name in    *)
(*     place of the function's value.                                      *)
(*   - A Python str that the code takes apart (a file name, an extension,  *)
(*     a marker, a glob) is a sequence of one-character strings, so that   *)
(*     suffix(), lower() and fnmatch are computed and not looked up.       *)
(*   - A path is a sequence of names (its parts).                          *)
(*   - A number (score, weight, threshold, confidence) is a Python float,  *)
(*     an IEEE 754 double, computed with the rounding of each operation.   *)
(*   - Optional[X] is a sequence of length 0 (None) or 1.                  *)
(***************************************************************************)
EXTENDS Integers, Sequences, FiniteSets, TLC

VARIABLES
    detector,           \* "none" | "ready" | "load_error": outcome of __init__
    templates,          \* self.templates: the loaded registry document
    detection_config,   \* self.detection_config
    fallback_config,    \* self.fallback_config
    set_order,          \* the order in which this process iterates the set
                        \* of technology keys (its string hash seed)
    fs,                 \* the filesystem: the set of files (paths)
    dirs,               \* the filesystem: the set of directories, each of
                        \* which may hold no file
    scan,               \* the traversal of the detect call in progress
                        \* (Optional): its root, the directories still to
                        \* visit, the entries read and not yet tested, the
                        \* files appended so far
    codebase_root,      \* argument of the last detect call
    scan_error,         \* whether the traversal of the last detect call raised
    all_files,          \* the listing _get_all_files returned in the last call
    confidence_scores,  \* the candidate list of the last call
    returned,           \* "none" | "result" | "error": how the last call
                        \* ended, "none" while it runs
    result,             \* the DetectionResult of the last call, or the one a
                        \* caller holds
    validation,         \* what validate_detection returned for `result`
    patterns,           \* what get_configured_patterns returned for `result`
    calls               \* history: the detect calls made so far, where kept

vars == <<detector, templates, detection_config, fallback_config, set_order,
          fs, dirs, scan, codebase_root, scan_error, all_files,
          confidence_scores, returned, result, validation, patterns, calls>>

(***************************************************************************)
(* Bounds of the model.                                                    *)
(***************************************************************************)
MaxFiles == 2

\* The longest sequence of detect calls whose history is kept.
MaxCalls == 3

(***************************************************************************)
(* Numbers: Python floats, that is IEEE 754 binary64 values with rounding  *)
(* to nearest, ties to even.  A float is the record [m, e] of value        *)
(* m * 2^e, m a natural number; m is odd, or m is 0 and e is 0, so that    *)
(* equal values are equal records.  m has up to 53 bits; it is written as  *)
(* the sequence of its digits in base 2^15, least significant first,       *)
(* since the checker's integers have 32 bits.  The scores, weights and     *)
(* thresholds of the detector are finite, non-negative and far from the    *)
(* ends of the exponent range, so there is no sign, no infinity, no NaN    *)
(* and no subnormal here.  A Python int in a float operation (score,       *)
(* len(...), the initial weighted_score = 0) is converted exactly.         *)
(***************************************************************************)
Base == 32768
BaseBits == 15
Precision == 53

\* Natural numbers as digit sequences without a leading (last) zero.
RECURSIVE NatOfInt(_)
NatOfInt(n) == IF n = 0 THEN <<>> ELSE <<n % Base>> \o NatOfInt(n \div Base)

RECURSIVE NatAddCarry(_, _, _)
NatAddCarry(a, b, carry) ==
    IF a = <<>> /\ b = <<>> THEN (IF carry = 0 THEN <<>> ELSE <<carry>>)
    ELSE LET x == (IF a = <<>> THEN 0 ELSE Head(a))
                  + (IF b = <<>> THEN 0 ELSE Head(b)) + carry
         IN  <<x % Base>> \o NatAddCarry(IF a = <<>> THEN <<>> ELSE Tail(a),
                                         IF b = <<>> THEN <<>> ELSE Tail(b),
                                         x \div Base)

NatAdd(a, b) == NatAddCarry(a, b, 0)

\* a * k + carry for a digit k.
RECURSIVE NatMulDigit(_, _, _)
NatMulDigit(a, k, carry) ==
    IF a = <<>> THEN (IF carry = 0 THEN <<>> ELSE <<carry>>)
    ELSE LET x == Head(a) * k + carry
         IN  <<x % Base>> \o NatMulDigit(Tail(a), k, x \div Base)

RECURSIVE NatMul(_, _)
NatMul(a, b) ==
    IF a = <<>> \/ b = <<>> THEN <<>>
    ELSE LET high == NatMul(a, Tail(b))
         IN  NatAdd(IF Head(b) = 0 THEN <<>> ELSE NatMulDigit(a, Head(b), 0),
                    IF high = <<>> THEN <<>> ELSE <<0>> \o high)

\* Quotient and remainder of a by a positive integer k < 2^16.
RECURSIVE NatDivMod(_, _)
NatDivMod(a, k) ==
    IF a = <<>> THEN [q |-> <<>>, r |-> 0]
    ELSE LET high == NatDivMod(Tail(a), k)
             x == high.r * Base + Head(a)
         IN  [q |-> IF high.q = <<>> /\ x \div k = 0 THEN <<>>
                    ELSE <<x \div k>> \o high.q,
              r |-> x % k]

\* a * 2^n and floor(a / 2^n).
NatShiftLeft(a, n) ==
    IF a = <<>> THEN <<>>
    ELSE NatMulDigit([i \in 1..(n \div BaseBits) |-> 0] \o a,
                     2 ^ (n % BaseBits), 0)

NatShiftRight(a, n) ==
    IF n \div BaseBits >= Len(a) THEN <<>>
    ELSE NatDivMod(SubSeq(a, n \div BaseBits + 1, Len(a)),
                   2 ^ (n % BaseBits)).q

NatBitLength(a) ==
    IF a = <<>> THEN 0
    ELSE BaseBits * (Len(a) - 1)
         + (CHOOSE k \in 1..BaseBits :
                2 ^ (k - 1) <= a[Len(a)] /\ a[Len(a)] < 2 ^ k)

NatLess(a, b) ==
    \/ Len(a) < Len(b)
    \/ /\ Len(a) = Len(b)
       /\ \E i \in 1..Len(a) :
             /\ a[i] < b[i]
             /\ \A j \in (i + 1)..Len(a) : a[j] = b[j]

\* The record of the value m * 2^e.
RECURSIVE Canonical(_, _)
Canonical(m, e) ==
    IF m = <<>> THEN [m |-> <<>>, e |-> 0]
    ELSE IF Head(m) = 0 THEN Canonical(Tail(m), e + BaseBits)
    ELSE IF Head(m) % 2 = 0 THEN Canonical(NatShiftRight(m, 1), e + 1)
    ELSE [m |-> m, e |-> e]

\* The float nearest to m * 2^e (+ a positive amount below 2^e when
\* `inexact`), ties to even.
RoundToFloat(m, e, inexact) ==
    LET drop == NatBitLength(m) - Precision
    IN  IF drop <= 0 THEN Canonical(m, e)
        ELSE LET kept == NatShiftRight(m, drop - 1)
                 q == NatShiftRight(kept, 1)
                 half == kept # <<>> /\ Head(kept) % 2 = 1
                 more == inexact \/ NatShiftLeft(kept, drop - 1) # m
                 odd == q # <<>> /\ Head(q) % 2 = 1
             IN  Canonical(IF half /\ (more \/ odd) THEN NatAdd(q, <<1>>) ELSE q,
                           e + drop)

\* float(n) for an int n >= 0.
FloatOfInt(n) == Canonical(NatOfInt(n), 0)

Zero == FloatOfInt(0)

\* a / k for a float a and an int k > 0 (k < 2^15).
GuardBits == 75
FDivInt(a, k) ==
    LET d == NatDivMod(NatShiftLeft(a.m, GuardBits), k)
    IN  RoundToFloat(d.q, a.e - GuardBits, d.r # 0)

\* The float a decimal literal n/d denotes (json.load, a literal of the
\* source), and n / d for ints: the float nearest to the quotient.
Float(n, d) == FDivInt(FloatOfInt(n), d)

Min(x, y) == IF x <= y THEN x ELSE y

FAdd(a, b) ==
    LET e == Min(a.e, b.e)
    IN  RoundToFloat(NatAdd(NatShiftLeft(a.m, a.e - e), NatShiftLeft(b.m, b.e - e)),
                     e, FALSE)

FMul(a, b) == RoundToFloat(NatMul(a.m, b.m), a.e + b.e, FALSE)

FLess(a, b) ==
    LET e == Min(a.e, b.e)
    IN  NatLess(NatShiftLeft(a.m, a.e - e), NatShiftLeft(b.m, b.e - e))

FGeq(a, b) == ~FLess(a, b)

(***************************************************************************)
(* Python dict helpers.                                                    *)
(***************************************************************************)
EmptyDict == [k \in {} |-> 0]
Get(d, k, default) == IF k \in DOMAIN d THEN d[k] ELSE default

(***************************************************************************)
(* Strings as character sequences: str.lower(), PurePath.suffix, fnmatch,  *)
(* PurePath.match.  The characters are those of code points 32 to 255 that *)
(* are listed below (printable ASCII without the grave accent, and the     *)
(* Latin-1 letters); Ord is defined for no other character, and with it    *)
(* Lower and the ranges of FnMatch.                                        *)
(***************************************************************************)
\* Code points 32..95, 97..126 and 192..255.
CharsFromSpace ==
    <<" ", "!", "\"", "#", "$", "%", "&", "'", "(", ")", "*", "+", ",", "-",
      ".", "/", "0", "1", "2", "3", "4", "5", "6", "7", "8", "9", ":", ";",
      "<", "=", ">", "?", "@", "A", "B", "C", "D", "E", "F", "G", "H", "I",
      "J", "K", "L", "M", "N", "O", "P", "Q", "R", "S", "T", "U", "V", "W",
      "X", "Y", "Z", "[", "\\", "]", "^", "_">>

CharsFromA ==
    <<"a", "b", "c", "d", "e", "f", "g", "h", "i", "j", "k", "l", "m", "n",
      "o", "p", "q", "r", "s", "t", "u", "v", "w", "x", "y", "z", "{", "|",
      "}", "~">>

CharsFromAGrave ==
    <<"À", "Á", "Â", "Ã", "Ä", "Å", "Æ", "Ç", "È", "É", "Ê", "Ë", "Ì", "Í",
      "Î", "Ï", "Ð", "Ñ", "Ò", "Ó", "Ô", "Õ", "Ö", "×", "Ø", "Ù", "Ú", "Û",
      "Ü", "Ý", "Þ", "ß", "à", "á", "â", "ã", "ä", "å", "æ", "ç", "è", "é",
      "ê", "ë", "ì", "í", "î", "ï", "ð", "ñ", "ò", "ó", "ô", "õ", "ö", "÷",
      "ø", "ù", "ú", "û", "ü", "ý", "þ", "ÿ">>

CodePoints == (32..95) \cup (97..126) \cup (192..255)

\* chr(n) and ord(c).
Chr(n) ==
    IF n <= 95 THEN CharsFromSpace[n - 31]
    ELSE IF n <= 126 THEN CharsFromA[n - 96]
    ELSE CharsFromAGrave[n - 191]

OrdTable ==
    [c \in {Chr(n) : n \in CodePoints} |-> CHOOSE n \in CodePoints : Chr(n) = c]

Ord(c) == OrdTable[c]

\* str.lower() on one character: "A".."Z" (65..90) and the Latin-1 capital
\* letters (192..222 without the multiplication sign 215) are 32 below
\* their small letters.
LowerChar(c) ==
    IF \/ (Ord(c) >= 65 /\ Ord(c) <= 90)
       \/ (Ord(c) >= 192 /\ Ord(c) <= 222 /\ Ord(c) # 215)
    THEN Chr(Ord(c) + 32) ELSE c

Lower(s) == [i \in 1..Len(s) |-> LowerChar(s[i])]

\* str.rfind("."): the last index of a dot, 0 when there is none
\* (Python's -1, with indices shifted by one).
RFindDot(name) ==
    LET dots == {i \in 1..Len(name) : name[i] = "."}
    IN  IF dots = {} THEN 0 ELSE CHOOSE i \in dots : \A j \in dots : j <= i

\* PurePath.suffix: name[i:] when 0 < i < len(name) - 1 (0-based i), else "".
Suffix(name) ==
    LET i == RFindDot(name)
    IN  IF i > 1 /\ i < Len(name) THEN SubSeq(name, i, Len(name)) ELSE <<>>

\* The last part of a path: PurePath.name.
Name(path) == path[Len(path)]

\* str.find(c, k, j) with 1-based indices: the first index h, k <= h < j,
\* where pat[h] = c; 0 when there is none.
Find(pat, c, k, j) ==
    LET hits == {h \in k..(j - 1) : h <= Len(pat) /\ pat[h] = c}
    IN  IF hits = {} THEN 0 ELSE CHOOSE h \in hits : \A g \in hits : h <= g

\* fnmatch.translate, the branch of "[": the chunks of pat[i:j] between
\* the hyphens that stand for ranges.  k is where the search for the next
\* hyphen starts.
RECURSIVE ClassChunks(_, _, _, _, _)
ClassChunks(pat, i, k, j, chunks) ==
    LET h == Find(pat, "-", k, j)
    IN  IF h # 0
        THEN ClassChunks(pat, h + 1, h + 3, j, Append(chunks, SubSeq(pat, i, h - 1)))
        ELSE IF i <= j - 1 THEN Append(chunks, SubSeq(pat, i, j - 1))
        ELSE [chunks EXCEPT ![Len(chunks)] = @ \o <<"-">>]

\* "Remove empty ranges": k runs from the last pair of chunks to the first.
RECURSIVE RemoveEmptyRanges(_, _)
RemoveEmptyRanges(chunks, k) ==
    IF k < 1 THEN chunks
    ELSE LET left == chunks[k]
             right == chunks[k + 1]
         IN  IF Ord(left[Len(left)]) > Ord(right[1])
             THEN RemoveEmptyRanges(
                      SubSeq(chunks, 1, k - 1)
                        \o <<SubSeq(left, 1, Len(left) - 1) \o Tail(right)>>
                        \o SubSeq(chunks, k + 2, Len(chunks)),
                      k - 1)
             ELSE RemoveEmptyRanges(chunks, k - 1)

\* The chunks of the class whose text is pat[i:j].
ClassOf(pat, i, j) ==
    IF Find(pat, "-", i, j) = 0 THEN <<SubSeq(pat, i, j - 1)>>
    ELSE LET chunks == ClassChunks(pat, i, IF pat[i] = "!" THEN i + 2 ELSE i + 1,
                                   j, <<>>)
         IN  RemoveEmptyRanges(chunks, Len(chunks) - 1)

\* Whether the character c is in the set the chunks denote: a character
\* of a chunk, or within the range from the last character of a chunk to
\* the first of the next.
InChunks(c, chunks) ==
    \/ \E n \in DOMAIN chunks : \E x \in DOMAIN chunks[n] : chunks[n][x] = c
    \/ \E n \in 1..(Len(chunks) - 1) :
          /\ Ord(chunks[n][Len(chunks[n])]) <= Ord(c)
          /\ Ord(c) <= Ord(chunks[n + 1][1])

\* The regular expression of one class, as a token: "(?!)" for the empty
\* text, "." for "!", "[^...]" for a text that starts with "!".
ClassToken(chunks) ==
    IF Len(chunks) = 1 /\ chunks[1] = <<>> THEN [kind |-> "never", chunks |-> <<>>]
    ELSE IF Len(chunks) = 1 /\ chunks[1] = <<"!">> THEN [kind |-> "any", chunks |-> <<>>]
    ELSE IF chunks[1] # <<>> /\ chunks[1][1] = "!"
    THEN [kind |-> "notin", chunks |-> [chunks EXCEPT ![1] = Tail(@)]]
    ELSE [kind |-> "in", chunks |-> chunks]

\* The index of the "]" that closes the class opened before index i, 0
\* when the class is not closed: a "!" and then a "]" at its start do not
\* close it.
ClassEnd(pat, i) ==
    LET n == Len(pat)
        j1 == IF i <= n /\ pat[i] = "!" THEN i + 1 ELSE i
        j2 == IF j1 <= n /\ pat[j1] = "]" THEN j1 + 1 ELSE j1
    IN  Find(pat, "]", j2, n + 1)

\* fnmatch.translate: the pattern from index i on as a sequence of tokens.
RECURSIVE Translate(_, _)
Translate(pat, i) ==
    IF i > Len(pat) THEN <<>>
    ELSE IF pat[i] = "*" THEN <<[kind |-> "star", chunks |-> <<>>]>> \o Translate(pat, i + 1)
    ELSE IF pat[i] = "?" THEN <<[kind |-> "any", chunks |-> <<>>]>> \o Translate(pat, i + 1)
    ELSE IF pat[i] = "[" /\ ClassEnd(pat, i + 1) # 0
    THEN <<ClassToken(ClassOf(pat, i + 1, ClassEnd(pat, i + 1)))>>
         \o Translate(pat, ClassEnd(pat, i + 1) + 1)
    ELSE <<[kind |-> "in", chunks |-> <<<<pat[i]>>>>]>> \o Translate(pat, i + 1)

TokenMatches(token, c) ==
    CASE token.kind = "any" -> TRUE
      [] token.kind = "never" -> FALSE
      [] token.kind = "in" -> InChunks(c, token.chunks)
      [] token.kind = "notin" -> ~InChunks(c, token.chunks)

\* re.fullmatch of the translated pattern.
RECURSIVE TokensMatch(_, _)
TokensMatch(s, tokens) ==
    IF tokens = <<>> THEN s = <<>>
    ELSE IF Head(tokens).kind = "star"
         THEN TokensMatch(s, Tail(tokens))
              \/ (s # <<>> /\ TokensMatch(Tail(s), tokens))
         ELSE /\ s # <<>>
              /\ TokenMatches(Head(tokens), Head(s))
              /\ TokensMatch(Tail(s), Tail(tokens))

\* fnmatch.fnmatchcase(s, p)
FnMatch(s, p) == TokensMatch(s, Translate(p, 1))

\* PurePath.match for a relative pattern, given as its parts: a pattern
\* without parts ("" or ".") raises ValueError("empty pattern"); otherwise
\* the pattern's parts are matched against the path's last parts.
PathMatchRaises(pattern) == pattern = <<>>

PathMatch(path, pattern) ==
    IF PathMatchRaises(pattern) THEN "ValueError"
    ELSE /\ Len(pattern) <= Len(path)
         /\ \A i \in 1..Len(pattern) :
               FnMatch(path[Len(path) - Len(pattern) + i], pattern[i])

\* file_path.name == config_file: the marker, written as a string, has no
\* separator and is the file's name.
NameEquals(path, pattern) == Len(pattern) = 1 /\ pattern[1] = Name(path)

(***************************************************************************)
(* The names, extensions and globs of the model's inputs, spelled out.     *)
(***************************************************************************)
AppA == <<"a", "p", "p", "A">>
AppB == <<"a", "p", "p", "B">>
Src == <<"s", "r", "c">>
Cmd == <<"c", "m", "d">>
PackageJson == <<"p", "a", "c", "k", "a", "g", "e", ".", "j", "s", "o", "n">>
TsconfigJson == <<"t", "s", "c", "o", "n", "f", "i", "g", ".", "j", "s", "o", "n">>
UtilGO == <<"U", "T", "I", "L", ".", "G", "O">>
MainGo == <<"m", "a", "i", "n", ".", "g", "o">>
GoMod == <<"g", "o", ".", "m", "o", "d">>
ExtGo == <<".", "g", "o">>
ExtMod == <<".", "m", "o", "d">>
ExtJson == <<".", "j", "s", "o", "n">>
ExtJs == <<".", "j", "s">>
PtStarJson == <<"[", "p", "t", "]", "*", ".", "j", "s", "o", "n">>
Star == <<"*">>

(***************************************************************************)
(* The filesystem: two codebase roots, the files that may exist under     *)
(* them and the directories that may hold them.  A directory is made and   *)
(* removed on its own: it can exist without any file below it.             *)
(***************************************************************************)
Roots == {<<AppA>>, <<AppB>>}

FileUniverse ==
    { <<AppA, PackageJson>>, <<AppA, TsconfigJson>>, <<AppA, Src, UtilGO>>,
      <<AppB, MainGo>>, <<AppB, GoMod>> }

IsPrefix(p, q) == Len(p) <= Len(q) /\ SubSeq(q, 1, Len(p)) = p

\* The directories above a path, and those of the universe.
Ancestors(path) == {SubSeq(path, 1, k) : k \in 1..(Len(path) - 1)}

DirectoryUniverse == UNION {Ancestors(f) : f \in FileUniverse}

(***************************************************************************)
(* Registry documents (the JSON read by _load_templates).  A key that a    *)
(* document leaves out is left out of the record, so that the defaults of  *)
(* the code's .get() calls are exercised.                                  *)
(***************************************************************************)
GoProfile ==
    [file_patterns |->
        << <<"source", [patterns |-> <<"*.go">>, analysis_type |-> "go_analysis"]>> >>]

NodeProfile ==
    [file_patterns |->
        << <<"source", [patterns |-> <<"*.js">>, analysis_type |-> "node_analysis"]>> >>]

\* Two pattern types, neither of which names an analysis type.
GenericProfile ==
    [file_patterns |->
        << <<"generic", [patterns |-> <<"*">>]>>,
           <<"docs", [patterns |-> <<"*.md">>]>> >>]

\* The typical catalog: literal markers, one directory glob.
ExtPatterns1 == [go |-> <<ExtGo, ExtMod>>, node |-> <<ExtJson>>]
CfgPatterns1 == [node |-> << <<PackageJson>>, <<TsconfigJson>> >>,
                 go |-> << <<GoMod>> >>]
DirPatterns1 == [node |-> << <<Src>> >>]

\* A catalog with a repeated extension, a glob marker with a character
\* class ("[pt]*.json"), empty pattern lists
\* and a two-part directory glob.
ExtPatterns2 == [go |-> <<ExtGo, ExtGo>>, node |-> <<ExtJs>>]
CfgPatterns2 == [node |-> << <<PtStarJson>> >>, go |-> << >>]
DirPatterns2 == [go |-> << <<Cmd>>, <<Src, Star>> >>, node |-> << >>]

\* 1: every default (no threshold, no weights, no "enabled").
Registry1 ==
    [auto_detection |->
        [detection_methods |->
            [file_extensions |-> [patterns |-> ExtPatterns1],
             configuration_files |-> [patterns |-> CfgPatterns1],
             directory_structure |-> [patterns |-> DirPatterns1]]],
     technology_templates |-> [go |-> GoProfile, node |-> NodeProfile],
     fallback_config |-> GenericProfile]

\* 2: threshold 1/2, weights 1/2, 1/2, 0; node has no template.
Registry2 ==
    [auto_detection |->
        [enabled |-> TRUE,
         confidence_threshold |-> Float(1, 2),
         detection_methods |->
            [file_extensions |-> [weight |-> Float(1, 2), patterns |-> ExtPatterns1],
             configuration_files |-> [weight |-> Float(1, 2), patterns |-> CfgPatterns1],
             directory_structure |-> [weight |-> Float(0, 1), patterns |-> DirPatterns1]]],
     technology_templates |-> [go |-> GoProfile],
     fallback_config |-> GenericProfile]

\* 3: threshold 1, auto detection disabled.
Registry3 ==
    [auto_detection |->
        [enabled |-> FALSE,
         confidence_threshold |-> Float(1, 1),
         detection_methods |->
            [file_extensions |-> [patterns |-> ExtPatterns1],
             configuration_files |-> [patterns |-> CfgPatterns1],
             directory_structure |-> [patterns |-> DirPatterns1]]],
     technology_templates |-> [go |-> GoProfile, node |-> NodeProfile],
     fallback_config |-> GenericProfile]

\* 4: the second catalog with the default threshold and weights.
Registry4 ==
    [auto_detection |->
        [detection_methods |->
            [file_extensions |-> [patterns |-> ExtPatterns2],
             configuration_files |-> [patterns |-> CfgPatterns2],
             directory_structure |-> [patterns |-> DirPatterns2]]],
     technology_templates |-> [node |-> NodeProfile],
     fallback_config |-> GenericProfile]

\* 5: the second catalog, threshold 4/5, no templates and no fallback profile.
Registry5 ==
    [auto_detection |->
        [confidence_threshold |-> Float(4, 5),
         detection_methods |->
            [file_extensions |-> [weight |-> Float(1, 2), patterns |-> ExtPatterns2],
             configuration_files |-> [weight |-> Float(1, 2), patterns |-> CfgPatterns2],
             directory_structure |-> [weight |-> Float(1, 2), patterns |-> DirPatterns2]]]]

\* 6: no detection method configured, threshold 0.
Registry6 ==
    [auto_detection |-> [confidence_threshold |-> Float(0, 1)],
     technology_templates |-> [go |-> GoProfile, node |-> NodeProfile],
     fallback_config |-> GenericProfile]

\* 7: only the file_extensions method has patterns, and auto detection is
\* disabled; threshold 0.
Registry7 ==
    [auto_detection |->
        [enabled |-> FALSE,
         confidence_threshold |-> Float(0, 1),
         detection_methods |->
            [file_extensions |-> [patterns |-> ExtPatterns1]]],
     technology_templates |-> [go |-> GoProfile, node |-> NodeProfile],
     fallback_config |-> GenericProfile]

\* 8: the first catalog with threshold 4/5 given explicitly.
Registry8 ==
    [auto_detection |->
        [confidence_threshold |-> Float(4, 5),
         detection_methods |->
            [file_extensions |-> [weight |-> Float(3, 10), patterns |-> ExtPatterns1],
             configuration_files |-> [weight |-> Float(2, 5), patterns |-> CfgPatterns1],
             directory_structure |-> [weight |-> Float(3, 10), patterns |-> DirPatterns1]]],
     technology_templates |-> [go |-> GoProfile, node |-> NodeProfile],
     fallback_config |-> GenericProfile]

\* 9: only the directory_structure method has patterns, one glob for each
\* of two technologies; threshold 3/10, the weight of that method.
DirPatterns3 == [go |-> << <<Cmd>> >>, node |-> << <<Src>> >>]

Registry9 ==
    [auto_detection |->
        [confidence_threshold |-> Float(3, 10),
         detection_methods |->
            [directory_structure |-> [patterns |-> DirPatterns3]]],
     technology_templates |-> [go |-> GoProfile, node |-> NodeProfile],
     fallback_config |-> GenericProfile]

\* 10: an empty pattern list under each of the three methods, and the
\* directory_structure method weighted 0.
ExtPatterns3 == [go |-> <<ExtGo>>, node |-> << >>]

Registry10 ==
    [auto_detection |->
        [detection_methods |->
            [file_extensions |-> [weight |-> Float(1, 2), patterns |-> ExtPatterns3],
             configuration_files |-> [weight |-> Float(1, 2), patterns |-> CfgPatterns2],
             directory_structure |-> [weight |-> Float(0, 1), patterns |-> DirPatterns2]]],
     technology_templates |-> [go |-> GoProfile, node |-> NodeProfile],
     fallback_config |-> GenericProfile]

\* 11: the first catalog with auto detection disabled and a threshold of
\* 1/2, which the two remaining methods can reach.
Registry11 ==
    [auto_detection |->
        [enabled |-> FALSE,
         confidence_threshold |-> Float(1, 2),
         detection_methods |->
            [file_extensions |-> [patterns |-> ExtPatterns1],
             configuration_files |-> [patterns |-> CfgPatterns1],
             directory_structure |-> [patterns |-> DirPatterns1]]],
     technology_templates |-> [go |-> GoProfile, node |-> NodeProfile],
     fallback_config |-> GenericProfile]

\* 12: the first catalog with a marker "" among those of go.
CfgPatterns3 == [node |-> << <<PackageJson>>, <<TsconfigJson>> >>,
                 go |-> << <<GoMod>>, << >> >>]

Registry12 ==
    [auto_detection |->
        [detection_methods |->
            [file_extensions |-> [patterns |-> ExtPatterns1],
             configuration_files |-> [patterns |-> CfgPatterns3],
             directory_structure |-> [patterns |-> DirPatterns1]]],
     technology_templates |-> [go |-> GoProfile, node |-> NodeProfile],
     fallback_config |-> GenericProfile]

\* 13: the first catalog with the weights 0.34, 0.56, 0.1: the doubles
\* nearest to them add up, in the aggregator's order, to the double above 1.
Registry13 ==
    [auto_detection |->
        [detection_methods |->
            [file_extensions |-> [weight |-> Float(34, 100), patterns |-> ExtPatterns1],
             configuration_files |-> [weight |-> Float(56, 100), patterns |-> CfgPatterns1],
             directory_structure |-> [weight |-> Float(1, 10), patterns |-> DirPatterns1]]],
     technology_templates |-> [go |-> GoProfile, node |-> NodeProfile],
     fallback_config |-> GenericProfile]

RegistryDocuments ==
    <<Registry1, Registry2, Registry3, Registry4, Registry5, Registry6,
      Registry7, Registry8, Registry9, Registry10, Registry11, Registry12,
      Registry13>>

(***************************************************************************)
(* TechnologyDetector.  `self` is the record of the object's fields.       *)
(***************************************************************************)

\* __init__: the fields derived from the loaded document.
NewDetector(doc) ==
    [templates |-> doc,
     detection_config |-> Get(doc, "auto_detection", EmptyDict),
     fallback_config |-> Get(doc, "fallback_config", EmptyDict)]

\* Mutant of GetAllFiles: the list `files` outlives the call, so a later
\* call appends to the files of the earlier ones.
GetAllFilesAppending(fsys, root) ==
    {f \in fsys : IsPrefix(root, f) /\ Len(f) > Len(root)} \cup all_files

\* What _get_all_files returns when the traversal does not fail and the
\* tree does not change while it runs: every file below the root.
GetAllFiles(fsys, root) ==
    {f \in fsys : IsPrefix(root, f) /\ Len(f) > Len(root)}

\* self.detection_config.get('detection_methods', {})
DetectionMethods(self) == Get(self.detection_config, "detection_methods", EmptyDict)

\* detection_methods.get(method, {}).get('patterns', {})
Patterns(self, method) ==
    Get(Get(DetectionMethods(self), method, EmptyDict), "patterns", EmptyDict)

\* Mutant of ExtensionCounts: the suffix is counted as written, without
\* .lower().
RECURSIVE ExtensionCountsCaseSensitive(_)
ExtensionCountsCaseSensitive(files) ==
    IF files = {} THEN EmptyDict
    ELSE LET file_path == CHOOSE f \in files : TRUE
             rest == ExtensionCountsCaseSensitive(files \ {file_path})
             extension == Suffix(Name(file_path))
         IN  (extension :> (Get(rest, extension, 0) + 1)) @@ rest

\* The first loop of _detect_by_file_extensions: the frequency table of the
\* lowercased suffixes.
RECURSIVE ExtensionCounts(_)
ExtensionCounts(files) ==
    IF files = {} THEN EmptyDict
    ELSE LET file_path == CHOOSE f \in files : TRUE
             rest == ExtensionCounts(files \ {file_path})
             extension == Lower(Suffix(Name(file_path)))
         IN  (extension :> (Get(rest, extension, 0) + 1)) @@ rest

\* The inner loop of _detect_by_file_extensions over one technology's list.
RECURSIVE ExtensionScore(_, _)
ExtensionScore(extensions, extension_counts) ==
    IF extensions = <<>> THEN 0
    ELSE (IF Head(extensions) \in DOMAIN extension_counts
          THEN extension_counts[Head(extensions)] ELSE 0)
         + ExtensionScore(Tail(extensions), extension_counts)

DetectByFileExtensions(self, files) ==
    LET extension_counts == ExtensionCounts(files)
        file_ext_patterns == Patterns(self, "file_extensions")
        total_files == Cardinality(files)
    IN  [technology \in DOMAIN file_ext_patterns |->
            IF total_files > 0
            THEN Float(ExtensionScore(file_ext_patterns[technology],
                                    extension_counts), total_files)
            ELSE Zero]

\* Mutant of ConfigFileFound: the loop over files without its break, so a
\* marker counts once per matching file.
ConfigFileFoundNoBreak(config_file, files) ==
    Cardinality({file_path \in files :
        NameEquals(file_path, config_file) \/ PathMatch(file_path, config_file)})

\* The loop over files for one marker that has parts, with its break: 1
\* when some file has the marker as its name or matches it, else 0.
ConfigFileFound(config_file, files) ==
    IF \E file_path \in files :
          NameEquals(file_path, config_file) \/ PathMatch(file_path, config_file)
    THEN 1 ELSE 0

\* The loop over one technology's markers.
RECURSIVE ConfigScore(_, _)
ConfigScore(config_files, files) ==
    IF config_files = <<>> THEN 0
    ELSE ConfigFileFound(Head(config_files), files)
         + ConfigScore(Tail(config_files), files)

\* "Normalize score (0-1 range)": score / max_possible, guarded.
\* Mutant of Normalize: an empty pattern list counts as fully matched.
NormalizeEmptyIsFull(score, max_possible) ==
    IF max_possible > 0 THEN Float(score, max_possible) ELSE Float(1, 1)

Normalize(score, max_possible) ==
    IF max_possible > 0 THEN Float(score, max_possible) ELSE Zero

\* Mutant of ConfigSignal: max_possible = len(files) instead of
\* len(config_files).
ConfigSignalPerFile(config_files, files) ==
    Normalize(ConfigScore(config_files, files), Cardinality(files))

ConfigSignal(config_files, files) ==
    Normalize(ConfigScore(config_files, files), Len(config_files))

\* file_path.match(config_file) raises for a marker without parts ("" or
\* "."), which no file's name equals, at the first file it is tried on.
DetectByConfigurationFilesRaises(self, files) ==
    LET config_patterns == Patterns(self, "configuration_files")
    IN  /\ files # {}
        /\ \E technology \in DOMAIN config_patterns :
              \E i \in DOMAIN config_patterns[technology] :
                  PathMatchRaises(config_patterns[technology][i])

DetectByConfigurationFiles(self, files) ==
    LET config_patterns == Patterns(self, "configuration_files")
    IN  IF DetectByConfigurationFilesRaises(self, files) THEN "ValueError"
        ELSE [technology \in DOMAIN config_patterns |->
                 ConfigSignal(config_patterns[technology], files)]

\* `if Path(codebase_root).glob(pattern):` tests the truth value of the
\* generator object that glob() returns, which is true whatever it would
\* yield; the filesystem is not consulted.
GlobIsTruthy(root, pattern) == TRUE

RECURSIVE DirectoryScore(_, _)
DirectoryScore(dir_patterns_list, root) ==
    IF dir_patterns_list = <<>> THEN 0
    ELSE (IF GlobIsTruthy(root, Head(dir_patterns_list)) THEN 1 ELSE 0)
         + DirectoryScore(Tail(dir_patterns_list), root)

DetectByDirectoryStructure(self, root) ==
    LET dir_patterns == Patterns(self, "directory_structure")
    IN  [technology \in DOMAIN dir_patterns |->
            Normalize(DirectoryScore(dir_patterns[technology], root),
                      Len(dir_patterns[technology]))]

\* Mutant of DetectionResults: the file_extensions method runs whatever
\* 'enabled' says.
DetectionResultsAlwaysExtensions(self, root, files) ==
    ("file_extensions" :> DetectByFileExtensions(self, files))
    @@ ("configuration_files" :> DetectByConfigurationFiles(self, files))
    @@ ("directory_structure" :> DetectByDirectoryStructure(self, root))

\* detection_results as built by detect_technology_stack: the
\* file_extensions map is present only when auto detection is enabled.
DetectionResults(self, root, files) ==
    (IF Get(self.detection_config, "enabled", TRUE)
     THEN "file_extensions" :> DetectByFileExtensions(self, files)
     ELSE EmptyDict)
    @@ ("configuration_files" :> DetectByConfigurationFiles(self, files))
    @@ ("directory_structure" :> DetectByDirectoryStructure(self, root))

\* The keys of `weights`, in the order the dict literal lists them.
MethodOrder == <<"file_extensions", "configuration_files", "directory_structure">>

DefaultWeight ==
    [file_extensions |-> Float(3, 10),
     configuration_files |-> Float(2, 5),
     directory_structure |-> Float(3, 10)]

Weights(self) ==
    [method \in DOMAIN DefaultWeight |->
        Get(Get(DetectionMethods(self), method, EmptyDict), "weight",
            DefaultWeight[method])]

\* all_technologies: the union of the keys of the signal maps.
AllTechnologies(detection_results) ==
    UNION {DOMAIN detection_results[m] : m \in DOMAIN detection_results}

\* The iteration orders a Python set of these technologies may have.
IterationOrders(S) ==
    {s \in [1..Cardinality(S) -> S] : \A t \in S : \E i \in DOMAIN s : s[i] = t}

\* Mutant of WeightedScore: `=` in place of `+=`, so the last method that
\* has a score for the technology overwrites the earlier ones.
RECURSIVE WeightedScoreOverwrite(_, _, _, _)
WeightedScoreOverwrite(detection_results, weights, technology, n) ==
    IF n = 0 THEN Zero
    ELSE LET method == MethodOrder[n]
         IN  IF method \in DOMAIN detection_results
                /\ technology \in DOMAIN detection_results[method]
             THEN FMul(detection_results[method][technology], weights[method])
             ELSE WeightedScoreOverwrite(detection_results, weights,
                                         technology, n - 1)

\* Every technology key of the registry's three pattern catalogs: the
\* elements all_technologies can hold.
TechnologyKeys(self) ==
    DOMAIN Patterns(self, "file_extensions")
        \cup DOMAIN Patterns(self, "configuration_files")
        \cup DOMAIN Patterns(self, "directory_structure")

\* `for technology in all_technologies`: the elements of the set S in the
\* order the process's hash seed gives them.
SetIteration(S, seed_order) == SelectSeq(seed_order, LAMBDA t : t \in S)

\* The inner loop over weights.items(), methods[1..n] being the ones done.
RECURSIVE WeightedScore(_, _, _, _)
WeightedScore(detection_results, weights, technology, n) ==
    IF n = 0 THEN Zero
    ELSE LET method == MethodOrder[n]
             before == WeightedScore(detection_results, weights, technology, n - 1)
         IN  IF method \in DOMAIN detection_results
                /\ technology \in DOMAIN detection_results[method]
             THEN FAdd(before, FMul(detection_results[method][technology],
                                    weights[method]))
             ELSE before

Candidate(detection_results, weights, technology) ==
    [technology |-> technology,
     confidence |-> WeightedScore(detection_results, weights, technology,
                                  Len(MethodOrder)),
     method_scores |->
        [method \in DOMAIN weights |->
            Get(Get(detection_results, method, EmptyDict), technology, Zero)]]

\* list.sort(key=confidence, reverse=True): a stable sort, so candidates of
\* equal confidence keep the order in which they were appended.
InsertByConfidence(sorted, x) ==
    LET k == Cardinality({i \in 1..Len(sorted) :
                            FGeq(sorted[i].confidence, x.confidence)})
    IN  SubSeq(sorted, 1, k) \o <<x>> \o SubSeq(sorted, k + 1, Len(sorted))

\* Mutant of SortByConfidence: the sort is left out, the candidates stay
\* in the order in which they were appended.
SortByConfidenceUnsorted(s) == s

RECURSIVE SortByConfidence(_)
SortByConfidence(s) ==
    IF s = <<>> THEN <<>>
    ELSE InsertByConfidence(SortByConfidence(SubSeq(s, 1, Len(s) - 1)), s[Len(s)])

\* _calculate_confidence_scores; `order` is the order in which the set
\* all_technologies is iterated.
CalculateConfidenceScores(self, detection_results, order) ==
    LET weights == Weights(self)
    IN  SortByConfidence(
            [i \in 1..Len(order) |->
                Candidate(detection_results, weights, order[i])])

DefaultThreshold == Float(7, 10)

\* Mutant of DetermineBestMatch: > in place of >=.
DetermineBestMatchStrict(self, scores) ==
    LET threshold == Get(self.detection_config, "confidence_threshold",
                         DefaultThreshold)
    IN  IF Len(scores) > 0 /\ ~FGeq(threshold, scores[1].confidence)
        THEN <<scores[1]>>
        ELSE <<>>

\* Mutant of DetermineBestMatch: the threshold test is left out.
DetermineBestMatchNoThreshold(self, scores) ==
    IF Len(scores) > 0 THEN <<scores[1]>> ELSE <<>>

\* Mutant of DetermineBestMatch: the threshold is looked up in
\* self.templates, where the key never is, so the default always applies.
DetermineBestMatchWrongDict(self, scores) ==
    LET threshold == Get(self.templates, "confidence_threshold",
                         DefaultThreshold)
    IN  IF Len(scores) > 0 /\ FGeq(scores[1].confidence, threshold)
        THEN <<scores[1]>>
        ELSE <<>>

\* _determine_best_match: None is <<>>, a candidate c is <<c>>.
DetermineBestMatch(self, scores) ==
    LET threshold == Get(self.detection_config, "confidence_threshold",
                         DefaultThreshold)
    IN  IF Len(scores) > 0 /\ FGeq(scores[1].confidence, threshold)
        THEN <<scores[1]>>
        ELSE <<>>

\* Mutant of GetTechnologyConfig: technology_templates.get(technology, {}).
GetTechnologyConfigEmpty(self, technology) ==
    Get(Get(self.templates, "technology_templates", EmptyDict), technology,
        EmptyDict)

\* _get_technology_config
GetTechnologyConfig(self, technology) ==
    LET technology_templates == Get(self.templates, "technology_templates", EmptyDict)
    IN  IF technology \in DOMAIN technology_templates
        THEN technology_templates[technology]
        ELSE self.fallback_config

\* Mutant of BuildResult: the fallback branch keeps 'fallback_used': False
\* of the branch it was copied from.
BuildResultFallbackFlag(self, best_match, detection_results) ==
    IF best_match # <<>>
    THEN [detected_technology |-> best_match[1].technology,
          confidence |-> best_match[1].confidence,
          detection_methods |-> detection_results,
          configuration |-> GetTechnologyConfig(self, best_match[1].technology),
          fallback_used |-> FALSE]
    ELSE [detected_technology |-> "generic",
          confidence |-> Zero,
          detection_methods |-> detection_results,
          configuration |-> self.fallback_config,
          fallback_used |-> FALSE]

\* Mutant of BuildResult: the fallback branch names the technology
\* 'unknown'.
BuildResultUnknown(self, best_match, detection_results) ==
    IF best_match # <<>>
    THEN [detected_technology |-> best_match[1].technology,
          confidence |-> best_match[1].confidence,
          detection_methods |-> detection_results,
          configuration |-> GetTechnologyConfig(self, best_match[1].technology),
          fallback_used |-> FALSE]
    ELSE [detected_technology |-> "unknown",
          confidence |-> Zero,
          detection_methods |-> detection_results,
          configuration |-> self.fallback_config,
          fallback_used |-> TRUE]

\* The result record built by detect_technology_stack from best_match.
BuildResult(self, best_match, detection_results) ==
    IF best_match # <<>>
    THEN [detected_technology |-> best_match[1].technology,
          confidence |-> best_match[1].confidence,
          detection_methods |-> detection_results,
          configuration |-> GetTechnologyConfig(self, best_match[1].technology),
          fallback_used |-> FALSE]
    ELSE [detected_technology |-> "generic",
          confidence |-> Zero,
          detection_methods |-> detection_results,
          configuration |-> self.fallback_config,
          fallback_used |-> TRUE]

\* detect_technology_stack after the listing: `files` is what
\* _get_all_files returned, `order` the set's iteration order.  The
\* ValueError of _detect_by_configuration_files is not caught.
DetectTechnologyStack(self, root, files, order) ==
    IF DetectByConfigurationFilesRaises(self, files) THEN "ValueError"
    ELSE LET detection_results == DetectionResults(self, root, files)
             scores == CalculateConfidenceScores(self, detection_results, order)
         IN  BuildResult(self, DetermineBestMatch(self, scores), detection_results)

\* Mutant of ValidConfidence: the validity gate is the 0.7 of the decision
\* threshold's default.
ValidConfidenceAtThreshold == Float(7, 10)

\* The numbers validate_detection compares the confidence with.
HighConfidence == Float(4, 5)
MediumConfidence == Float(3, 5)
ValidConfidence == Float(1, 2)

\* Mutant of ConfidenceLevel: > in place of >= at 0.8.
ConfidenceLevelStrict(confidence) ==
    IF FLess(HighConfidence, confidence) THEN "high"
    ELSE IF FGeq(confidence, MediumConfidence) THEN "medium"
    ELSE "low"

\* 'high' if confidence >= 0.8 else 'medium' if confidence >= 0.6 else 'low'
ConfidenceLevel(confidence) ==
    IF FGeq(confidence, HighConfidence) THEN "high"
    ELSE IF FGeq(confidence, MediumConfidence) THEN "medium"
    ELSE "low"

\* Mutant of LowConfidence: a fallback result counts as low confidence too.
LowConfidenceOrFallback(detection_result) ==
    \/ FLess(detection_result.confidence, ValidConfidence)
    \/ Get(detection_result, "fallback_used", FALSE)

\* Mutant of LowConfidence: the gate is the 0.6 of the "medium" level.
LowConfidenceBelowMedium(detection_result) ==
    FLess(detection_result.confidence, MediumConfidence)

\* if detection_result['confidence'] < 0.5
LowConfidence(detection_result) ==
    FLess(detection_result.confidence, ValidConfidence)

\* Mutant of FallbackUsed: `elif` in place of `if`, so the fallback check
\* is skipped when the low-confidence check fired.
FallbackUsedUnlessLow(detection_result) ==
    /\ ~FLess(detection_result.confidence, ValidConfidence)
    /\ Get(detection_result, "fallback_used", FALSE)

\* if detection_result.get('fallback_used', False)
FallbackUsed(detection_result) == Get(detection_result, "fallback_used", FALSE)

\* Mutant of NoConfigurationFiles: `'configuration_files' not in
\* detection_methods`, which an empty map does not satisfy.
NoConfigurationFilesKeyOnly(detection_result) ==
    "configuration_files" \notin
        DOMAIN Get(detection_result, "detection_methods", EmptyDict)

\* if not detection_methods.get('configuration_files'): the key is absent
\* (None) or its map is empty.
NoConfigurationFiles(detection_result) ==
    LET detection_methods == Get(detection_result, "detection_methods", EmptyDict)
    IN  Get(detection_methods, "configuration_files", EmptyDict) = EmptyDict

\* validate_detection
ValidateDetection(self, detection_result) ==
    LET low == LowConfidence(detection_result)
        fallback == FallbackUsed(detection_result)
        noconfig == NoConfigurationFiles(detection_result)
    IN  [is_valid |-> ~low,
         confidence_level |-> ConfidenceLevel(detection_result.confidence),
         recommendations |->
            (IF low THEN <<"Consider manually specifying the technology stack">>
                    ELSE <<>>)
            \o (IF fallback
                THEN <<"Technology-specific patterns may not be optimal">>
                ELSE <<>>)
            \o (IF noconfig
                THEN <<"Consider adding configuration files for better detection">>
                ELSE <<>>),
         warnings |->
            (IF low THEN <<"Low confidence in technology detection">> ELSE <<>>)
            \o (IF fallback THEN <<"Using generic fallback configuration">>
                             ELSE <<>>)
            \o (IF noconfig THEN <<"No configuration files detected">>
                             ELSE <<>>)]

\* The loop of _generate_analysis_config over the first n items of
\* file_patterns: each item assigns the entry of its analysis type, so of
\* two pattern types that name the same analysis type the later one stays.
RECURSIVE AnalysisConfigOfItems(_, _)
AnalysisConfigOfItems(file_patterns, n) ==
    IF n = 0 THEN EmptyDict
    ELSE LET pattern_config == file_patterns[n][2]
             analysis_type == Get(pattern_config, "analysis_type", "generic_analysis")
         IN  (analysis_type :>
                [enabled |-> TRUE,
                 file_patterns |-> Get(pattern_config, "patterns", <<>>),
                 directories |-> Get(pattern_config, "directories", <<>>),
                 description |-> Get(pattern_config, "description", "")])
             @@ AnalysisConfigOfItems(file_patterns, n - 1)

\* _generate_analysis_config
GenerateAnalysisConfig(self, technology_config) ==
    LET file_patterns == Get(technology_config, "file_patterns", <<>>)
    IN  AnalysisConfigOfItems(file_patterns, Len(file_patterns))

\* get_configured_patterns
GetConfiguredPatterns(self, detection_result) ==
    LET config == detection_result.configuration
    IN  [file_patterns |-> Get(config, "file_patterns", <<>>),
         regex_patterns |-> Get(config, "regex_patterns", EmptyDict),
         integration_points |-> Get(config, "integration_points", EmptyDict),
         analysis_config |-> GenerateAnalysisConfig(self, config)]

(***************************************************************************)
(* The state machine.                                                      *)
(***************************************************************************)
Self ==
    [templates |-> templates,
     detection_config |-> detection_config,
     fallback_config |-> fallback_config]

Init ==
    /\ detector = "none"
    /\ templates = EmptyDict
    /\ detection_config = EmptyDict
    /\ fallback_config = EmptyDict
    /\ set_order = <<>>
    /\ fs = {}
    /\ dirs = {}
    /\ scan = <<>>
    /\ codebase_root = <<>>
    /\ scan_error = FALSE
    /\ all_files = {}
    /\ confidence_scores = <<>>
    /\ returned = "none"
    /\ result = EmptyDict
    /\ validation = <<>>
    /\ patterns = <<>>
    /\ calls = <<>>

\* TechnologyDetector(templates_file) on a readable, well-formed document.
\* The interpreter that runs the detector has drawn its string hash seed
\* by then (PYTHONHASHSEED, random for each process unless it is set), and
\* with it the order in which a set of the registry's technology keys is
\* iterated for as long as the process lives.
Construct(doc) ==
    /\ detector = "none"
    /\ detector' = "ready"
    /\ templates' = NewDetector(doc).templates
    /\ detection_config' = NewDetector(doc).detection_config
    /\ fallback_config' = NewDetector(doc).fallback_config
    /\ set_order' \in IterationOrders(TechnologyKeys(NewDetector(doc)))
    /\ UNCHANGED <<fs, dirs, scan, codebase_root, scan_error, all_files,
                   confidence_scores, returned, result, validation, patterns,
                   calls>>

\* Mutant of ConstructFails: the except branch logs the error and returns
\* {} instead of raising, so an instance with an empty registry exists.
ConstructFailsSwallowed ==
    /\ detector = "none"
    /\ detector' = "ready"
    /\ templates' = EmptyDict
    /\ detection_config' = EmptyDict
    /\ fallback_config' = EmptyDict
    /\ set_order' = <<>>
    /\ UNCHANGED <<fs, dirs, scan, codebase_root, scan_error, all_files,
                   confidence_scores, returned, result, validation, patterns,
                   calls>>

\* TechnologyDetector(templates_file) when open() or json.load() raises:
\* _load_templates logs and re-raises, so no instance comes to exist.
ConstructFails ==
    /\ detector = "none"
    /\ detector' = "load_error"
    /\ UNCHANGED <<templates, detection_config, fallback_config, set_order, fs,
                   dirs, scan, codebase_root, scan_error, all_files, confidence_scores,
                   returned, result, validation, patterns, calls>>

\* The environment makes a directory (os.mkdir) in one that exists.
MakeDirectory(d) ==
    /\ d \notin dirs
    /\ Ancestors(d) \subseteq dirs
    /\ dirs' = dirs \cup {d}
    /\ UNCHANGED <<detector, templates, detection_config, fallback_config,
                   set_order, fs, scan, codebase_root, scan_error, all_files,
                   confidence_scores, returned, result, validation, patterns,
                   calls>>

\* The environment removes a directory that holds nothing (os.rmdir).
RemoveDirectory(d) ==
    /\ d \in dirs
    /\ \A e \in fs \cup dirs : d \notin Ancestors(e)
    /\ dirs' = dirs \ {d}
    /\ UNCHANGED <<detector, templates, detection_config, fallback_config,
                   set_order, fs, scan, codebase_root, scan_error, all_files,
                   confidence_scores, returned, result, validation, patterns,
                   calls>>

\* The environment adds a file to a codebase, and with it the directories
\* above it that are missing (os.makedirs(..., exist_ok=True), open).
CreateFile(f) ==
    /\ f \notin fs
    /\ Cardinality(fs) < MaxFiles
    /\ fs' = fs \cup {f}
    /\ dirs' = dirs \cup Ancestors(f)
    /\ UNCHANGED <<detector, templates, detection_config, fallback_config,
                   set_order, scan, codebase_root, scan_error, all_files,
                   confidence_scores, returned, result, validation, patterns,
                   calls>>

\* The environment removes a file from a codebase (os.remove): the
\* directory it was in stays.
DeleteFile(f) ==
    /\ f \in fs
    /\ fs' = fs \ {f}
    /\ UNCHANGED <<detector, templates, detection_config, fallback_config,
                   set_order, dirs, scan, codebase_root, scan_error, all_files,
                   confidence_scores, returned, result, validation, patterns,
                   calls>>

\* What the traversal reads of the tree: is_dir(d) and a successful
\* scandir(d) need the directory, not a file in it.
IsDir(directories, d) == d \in directories

\* The files that scandir(d) lists, and the directories.
Children(fsys, d) == {f \in fsys : Len(f) = Len(d) + 1 /\ IsPrefix(d, f)}

ChildDirectories(directories, d) ==
    {e \in directories : Len(e) = Len(d) + 1 /\ IsPrefix(d, e)}

\* detect_technology_stack(root) is entered and Path(root).rglob('*')
\* starts: select_from tests is_dir(root) and, for a root that is no
\* directory, yields nothing.  The call has returned nothing yet.
BeginDetect(root) ==
    /\ detector = "ready"
    /\ scan = <<>>
    /\ scan' = <<[root |-> root,
                  todo |-> IF IsDir(dirs, root) THEN <<root>> ELSE <<>>,
                  stage |-> "list",
                  pending |-> {},
                  files |-> {}]>>
    /\ codebase_root' = root
    /\ scan_error' = FALSE
    /\ all_files' = {}
    /\ confidence_scores' = <<>>
    /\ returned' = "none"
    /\ result' = EmptyDict
    /\ validation' = <<>>
    /\ patterns' = <<>>
    /\ UNCHANGED <<detector, templates, detection_config, fallback_config,
                   set_order, fs, dirs, calls>>

\* The selector of '*' reads the directory at the head of `todo`:
\* entries = list(scandir(d)).  The entries that are directories are
\* yielded too and fail is_file(); they are left out of `pending`.
ListDirectory ==
    /\ scan # <<>>
    /\ scan[1].todo # <<>>
    /\ scan[1].stage = "list"
    /\ IsDir(dirs, Head(scan[1].todo))
    /\ scan' = <<[scan[1] EXCEPT !.pending = Children(fs, Head(scan[1].todo)),
                                 !.stage = "stat"]>>
    /\ UNCHANGED <<detector, templates, detection_config, fallback_config,
                   set_order, fs, dirs, codebase_root, scan_error, all_files,
                   confidence_scores, returned, result, validation, patterns,
                   calls>>

\* One turn of the loop of _get_all_files: an entry that was read is
\* yielded, and appended if file_path.is_file() finds it still there.
StatFile(f) ==
    /\ scan # <<>>
    /\ scan[1].stage = "stat"
    /\ f \in scan[1].pending
    /\ scan' = <<[scan[1] EXCEPT !.pending = @ \ {f},
                                 !.files = IF f \in fs THEN @ \cup {f} ELSE @]>>
    /\ UNCHANGED <<detector, templates, detection_config, fallback_config,
                   set_order, fs, dirs, codebase_root, scan_error, all_files,
                   confidence_scores, returned, result, validation, patterns,
                   calls>>

\* _iterate_directories reads the directory a second time, for its
\* subdirectories, which are visited before the directories that remain,
\* in the order in which scandir gave them.
ListSubdirectories ==
    /\ scan # <<>>
    /\ scan[1].todo # <<>>
    /\ scan[1].stage = "stat"
    /\ scan[1].pending = {}
    /\ IsDir(dirs, Head(scan[1].todo))
    /\ \E order \in IterationOrders(ChildDirectories(dirs, Head(scan[1].todo))) :
          scan' = <<[scan[1] EXCEPT !.todo = order \o Tail(@), !.stage = "list"]>>
    /\ UNCHANGED <<detector, templates, detection_config, fallback_config,
                   set_order, fs, dirs, codebase_root, scan_error, all_files,
                   confidence_scores, returned, result, validation, patterns,
                   calls>>

\* detect_technology_stack from the return of _get_all_files on: `files`
\* is the list it returned, `raised` whether the traversal failed.  The
\* result is a new dict: no report exists for it yet.  The ValueError of
\* an empty marker leaves the call with no result.
DetectCall(root, raised, files) ==
    /\ detector = "ready"
    /\ IF DetectByConfigurationFilesRaises(Self, files)
       THEN /\ confidence_scores' = <<>>
            /\ result' = EmptyDict
            /\ returned' = "error"
       ELSE LET detection_results == DetectionResults(Self, root, files)
                order == SetIteration(AllTechnologies(detection_results), set_order)
            IN  /\ confidence_scores' =
                      CalculateConfidenceScores(Self, detection_results, order)
                /\ result' = DetectTechnologyStack(Self, root, files, order)
                /\ returned' = "result"
    /\ codebase_root' = root
    /\ scan_error' = raised
    /\ all_files' = files
    /\ validation' = <<>>
    /\ patterns' = <<>>
    /\ UNCHANGED <<detector, templates, detection_config, fallback_config,
                   set_order, fs, dirs>>

\* The traversal ends and detect goes on with the files appended so far:
\* either every directory has been visited, or the traversal fails where
\* it stands (`raised`): scandir or stat raises, the directory having
\* vanished or being unreadable, and _get_all_files catches the exception
\* and logs it.
EndDetect(raised) ==
    /\ scan # <<>>
    /\ raised <=> scan[1].todo # <<>>
    /\ DetectCall(scan[1].root, raised, scan[1].files)
    /\ scan' = <<>>
    /\ UNCHANGED calls

\* Mutant of Validate: the report is also stored in the result it was
\* given, under the key 'validation'.
ValidateAnnotating ==
    /\ detector = "ready"
    /\ result # EmptyDict
    /\ validation' = <<ValidateDetection(Self, result)>>
    /\ result' = [key \in DOMAIN result \cup {"validation"} |->
                     IF key = "validation" THEN ValidateDetection(Self, result)
                     ELSE result[key]]
    /\ UNCHANGED <<detector, templates, detection_config, fallback_config,
                   set_order, fs, dirs, scan, codebase_root, scan_error, all_files,
                   confidence_scores, returned, patterns, calls>>

\* validate_detection(result): reads the result, builds and returns a new
\* dict; it assigns to no attribute of self and to no key of the result.
Validate ==
    /\ detector = "ready"
    /\ result # EmptyDict
    /\ validation' = <<ValidateDetection(Self, result)>>
    /\ UNCHANGED <<detector, templates, detection_config, fallback_config,
                   set_order, fs, dirs, scan, codebase_root, scan_error, all_files,
                   confidence_scores, returned, result, patterns, calls>>

\* get_configured_patterns(result): likewise.
ConfiguredPatterns ==
    /\ detector = "ready"
    /\ result # EmptyDict
    /\ patterns' = <<GetConfiguredPatterns(Self, result)>>
    /\ UNCHANGED <<detector, templates, detection_config, fallback_config,
                   set_order, fs, dirs, scan, codebase_root, scan_error, all_files,
                   confidence_scores, returned, result, validation, calls>>

Next ==
    \/ \E i \in 1..Len(RegistryDocuments) : Construct(RegistryDocuments[i])
    \/ ConstructFails
    \/ \E d \in DirectoryUniverse : MakeDirectory(d)
    \/ \E d \in DirectoryUniverse : RemoveDirectory(d)
    \/ \E f \in FileUniverse : CreateFile(f)
    \/ \E f \in FileUniverse : DeleteFile(f)
    \/ \E root \in Roots : BeginDetect(root)
    \/ ListDirectory
    \/ \E f \in FileUniverse : StatFile(f)
    \/ ListSubdirectories
    \/ \E raised \in BOOLEAN : EndDetect(raised)

Spec == Init /\ [][Next]_vars

(***************************************************************************)
(* Use of one detector on a filesystem snapshot that does not change: the  *)
(* detector is constructed, the snapshot is chosen, and the caller makes   *)
(* successive detect calls, each recorded with its root and the result it  *)
(* returned, and passes the latest result to validate_detection and        *)
(* get_configured_patterns.  The traversals complete.                      *)
(***************************************************************************)
InitCalls ==
    /\ detector = "ready"
    /\ \E i \in 1..Len(RegistryDocuments) :
          /\ templates = NewDetector(RegistryDocuments[i]).templates
          /\ detection_config = NewDetector(RegistryDocuments[i]).detection_config
          /\ fallback_config = NewDetector(RegistryDocuments[i]).fallback_config
          /\ set_order \in IterationOrders(TechnologyKeys(NewDetector(RegistryDocuments[i])))
    /\ fs \in {files \in SUBSET FileUniverse : Cardinality(files) <= MaxFiles}
    /\ dirs = UNION {Ancestors(f) : f \in fs}
    /\ scan = <<>>
    /\ codebase_root = <<>>
    /\ scan_error = FALSE
    /\ all_files = {}
    /\ confidence_scores = <<>>
    /\ returned = "none"
    /\ result = EmptyDict
    /\ validation = <<>>
    /\ patterns = <<>>
    /\ calls = <<>>

DetectRecorded(root) ==
    /\ Len(calls) < MaxCalls
    /\ scan = <<>>
    /\ DetectCall(root, FALSE, GetAllFiles(fs, root))
    /\ calls' = Append(calls, [root |-> root, result |-> result'])
    /\ UNCHANGED scan

NextCalls ==
    \/ \E root \in Roots : DetectRecorded(root)
    \/ Validate
    \/ ConfiguredPatterns

SpecCalls == InitCalls /\ [][NextCalls]_vars

(***************************************************************************)
(* validate_detection and get_configured_patterns as functions of the      *)
(* DetectionResult they are given: a caller holds a result dict, of any    *)
(* confidence, and passes it to a constructed detector.                    *)
(***************************************************************************)
GivenConfidences ==
    { Float(0, 1), Float(49, 100), Float(1, 2), Float(11, 20), Float(59, 100), Float(3, 5),
      Float(7, 10), Float(79, 100), Float(4, 5), Float(1, 1) }

GivenSignalMaps ==
    { EmptyDict,
      [file_extensions |-> [go |-> Float(1, 1)],
       configuration_files |-> EmptyDict,
       directory_structure |-> EmptyDict],
      [file_extensions |-> [go |-> Float(1, 1)],
       configuration_files |-> [go |-> Float(0, 1)],
       directory_structure |-> [go |-> Float(1, 1)]],
      [configuration_files |-> [go |-> Float(1, 1), node |-> Float(0, 1)],
       directory_structure |-> [go |-> Float(1, 1)]] }

\* The results a caller may hold: the five keys detect writes, and dicts
\* that lack the two keys validate_detection reads with .get().
GivenResults ==
    { [detected_technology |-> technology,
       confidence |-> confidence,
       detection_methods |-> detection_methods,
       configuration |-> IF technology = "go" THEN GoProfile ELSE GenericProfile,
       fallback_used |-> fallback_used] :
         technology \in {"go", "generic"},
         confidence \in GivenConfidences,
         detection_methods \in GivenSignalMaps,
         fallback_used \in BOOLEAN }
    \cup
    { [detected_technology |-> "go",
       confidence |-> confidence,
       configuration |-> EmptyDict] : confidence \in GivenConfidences }

InitValidate ==
    /\ detector = "ready"
    /\ \E i \in 1..Len(RegistryDocuments) :
          /\ templates = NewDetector(RegistryDocuments[i]).templates
          /\ detection_config = NewDetector(RegistryDocuments[i]).detection_config
          /\ fallback_config = NewDetector(RegistryDocuments[i]).fallback_config
          /\ set_order \in IterationOrders(TechnologyKeys(NewDetector(RegistryDocuments[i])))
    /\ fs = {}
    /\ dirs = {}
    /\ scan = <<>>
    /\ codebase_root = <<>>
    /\ scan_error = FALSE
    /\ all_files = {}
    /\ confidence_scores = <<>>
    /\ returned = "none"
    /\ result \in GivenResults
    /\ validation = <<>>
    /\ patterns = <<>>
    /\ calls = <<>>

NextValidate ==
    \/ Validate
    \/ ConfiguredPatterns

SpecValidate == InitValidate /\ [][NextValidate]_vars

(***************************************************************************)
(* What the properties below read from the registry document itself.       *)
(***************************************************************************)
HasResult == returned = "result"

\* confidence_threshold as the registry gives it, 0.7 when it gives none.
RegistryThreshold ==
    LET auto == Get(templates, "auto_detection", EmptyDict)
    IN  IF "confidence_threshold" \in DOMAIN auto
        THEN auto.confidence_threshold ELSE Float(7, 10)

ThresholdIsDefault ==
    "confidence_threshold" \notin DOMAIN Get(templates, "auto_detection", EmptyDict)

RegistryFallback ==
    IF "fallback_config" \in DOMAIN templates
    THEN templates.fallback_config ELSE EmptyDict

RegistryTemplates ==
    IF "technology_templates" \in DOMAIN templates
    THEN templates.technology_templates ELSE EmptyDict

\* The patterns the registry configures for a method: technology -> list.
RegistryPatterns(method) ==
    LET auto == Get(templates, "auto_detection", EmptyDict)
        methods == Get(auto, "detection_methods", EmptyDict)
    IN  Get(Get(methods, method, EmptyDict), "patterns", EmptyDict)

TopCandidate == confidence_scores[1]

\* The three outcomes of the decision, read off the candidate list.
NoCandidates == Len(confidence_scores) = 0
Matched ==
    Len(confidence_scores) > 0 /\ FGeq(TopCandidate.confidence, RegistryThreshold)
BelowThreshold ==
    Len(confidence_scores) > 0 /\ FLess(TopCandidate.confidence, RegistryThreshold)

(***************************************************************************)
(* C1.  When the candidate list is non-empty and the top candidate's       *)
(* confidence is greater than or equal to the threshold (0.7 by default),  *)
(* equality included, detect returns the top candidate's technology and    *)
(* confidence with fallback_used = false.                                  *)
(***************************************************************************)
C1_MatchedAtOrAboveThreshold ==
    (HasResult /\ Matched) =>
        /\ result.detected_technology = TopCandidate.technology
        /\ result.confidence = TopCandidate.confidence
        /\ result.fallback_used = FALSE

\* A detection whose top confidence is exactly the default threshold 0.7.
C1_Witness ==
    /\ HasResult
    /\ ThresholdIsDefault
    /\ Len(confidence_scores) > 0
    /\ TopCandidate.confidence = Float(7, 10)
    /\ result.fallback_used = FALSE
    /\ result.detected_technology = TopCandidate.technology

(***************************************************************************)
(* C2.  When no technology's aggregated confidence reaches the threshold,  *)
(* detect returns fallback_used = true, detected_technology = "generic"    *)
(* and the fallback profile as configuration.                              *)
(***************************************************************************)
C2_FallbackWhenNoneReaches ==
    (HasResult /\ \A i \in 1..Len(confidence_scores) :
                     FLess(confidence_scores[i].confidence, RegistryThreshold)) =>
        /\ result.fallback_used = TRUE
        /\ result.detected_technology = "generic"
        /\ result.configuration = RegistryFallback

\* Some technology scored above zero, none reached the default threshold.
C2_Witness ==
    /\ HasResult
    /\ ThresholdIsDefault
    /\ Len(confidence_scores) > 1
    /\ \A i \in 1..Len(confidence_scores) :
          FLess(confidence_scores[i].confidence, Float(7, 10))
    /\ FLess(Zero, TopCandidate.confidence)
    /\ result.detected_technology = "generic"
    /\ result.configuration = GenericProfile

(***************************************************************************)
(* C3, as stated: in the BelowThreshold outcome the result uses the        *)
(* fallback profile and its confidence field retains the top candidate's   *)
(* aggregated confidence.                                                  *)
(***************************************************************************)
C3_RetainsTopConfidence ==
    (HasResult /\ BelowThreshold) =>
        /\ result.configuration = RegistryFallback
        /\ result.confidence = TopCandidate.confidence

(***************************************************************************)
(* C3, amended: in the BelowThreshold outcome the result uses the fallback *)
(* profile and its confidence field is 0.0; the top candidate's confidence *)
(* is not kept in it.                                                      *)
(***************************************************************************)
C3_FallbackConfidenceZero ==
    (HasResult /\ BelowThreshold) =>
        /\ result.configuration = RegistryFallback
        /\ result.confidence = Zero

\* A below-threshold detection whose top candidate scored above zero.
C3_Witness ==
    /\ HasResult
    /\ BelowThreshold
    /\ FLess(Zero, TopCandidate.confidence)
    /\ result.confidence = Zero
    /\ result.configuration = GenericProfile

(***************************************************************************)
(* C4.  When the candidate list is empty (in particular when no technology *)
(* is configured in any method's patterns), detect returns the fallback    *)
(* profile, confidence 0.0 and fallback_used = true, whatever the          *)
(* threshold is.                                                           *)
(***************************************************************************)
NoTechnologyConfigured ==
    \A i \in 1..Len(MethodOrder) : DOMAIN RegistryPatterns(MethodOrder[i]) = {}

C4_NoCandidatesFallback ==
    (HasResult /\ (NoCandidates \/ NoTechnologyConfigured)) =>
        /\ NoCandidates
        /\ result.configuration = RegistryFallback
        /\ result.confidence = Zero
        /\ result.fallback_used = TRUE

\* An empty candidate list under threshold 0, which 0.0 would reach.
C4_Witness ==
    /\ HasResult
    /\ NoCandidates
    /\ RegistryThreshold = Zero
    /\ result.fallback_used = TRUE
    /\ result.confidence = Zero

(***************************************************************************)
(* C5.  When the matched technology has no entry in technology_templates,  *)
(* detect completes and returns a result whose configuration is the        *)
(* fallback profile.                                                       *)
(***************************************************************************)
C5_MissingTemplateFallsBack ==
    (returned # "none" /\ Matched
        /\ TopCandidate.technology \notin DOMAIN RegistryTemplates) =>
        /\ returned = "result"
        /\ result.detected_technology = TopCandidate.technology
        /\ result.configuration = RegistryFallback

\* A matched technology without a template, in a registry whose fallback
\* profile is not empty.
C5_Witness ==
    /\ HasResult
    /\ Matched
    /\ TopCandidate.technology \notin DOMAIN RegistryTemplates
    /\ RegistryTemplates # EmptyDict
    /\ result.fallback_used = FALSE
    /\ result.configuration = GenericProfile

(***************************************************************************)
(* C6, as stated: if the traversal of the codebase root fails, detect      *)
(* aborts with an error and returns no DetectionResult.                    *)
(***************************************************************************)
C6_ScanFailureAborts ==
    (returned # "none" /\ scan_error) => returned = "error"

(***************************************************************************)
(* What Path(root).glob(pattern) yields on a tree: the entries (files and  *)
(* directories below the root) whose path below the root has the           *)
(* pattern's length and matches it part by part.                           *)
(***************************************************************************)
Entries(files, directories, root) ==
    {e \in files \cup directories : IsPrefix(root, e) /\ Len(e) > Len(root)}

GlobYields(files, directories, root, pattern) ==
    \E e \in Entries(files, directories, root) :
        /\ Len(e) = Len(root) + Len(pattern)
        /\ \A i \in 1..Len(pattern) : FnMatch(e[Len(root) + i], pattern[i])

(***************************************************************************)
(* C7, as stated: DirectoryStructureSignal(T) = (number of T's directory   *)
(* globs that yield at least one match under the root) / (number of globs  *)
(* configured for T), so a root matching none of them scores 0.0.  The     *)
(* tree is the one that is there when detect computes the signal and       *)
(* returns.                                                                *)
(***************************************************************************)
C7_DirectorySignalCountsMatches ==
    [][(scan # <<>> /\ scan' = <<>> /\ returned' = "result") =>
        \A T \in DOMAIN RegistryPatterns("directory_structure") :
            LET globs == RegistryPatterns("directory_structure")[T]
                yielding == {i \in 1..Len(globs) :
                                GlobYields(fs, dirs, codebase_root', globs[i])}
            IN  Len(globs) > 0 =>
                    result'.detection_methods.directory_structure[T]
                        = Float(Cardinality(yielding), Len(globs))]_vars

(***************************************************************************)
(* C8.  FileExtensionSignal(T) = (sum over T's configured extensions of    *)
(* the number of listed files whose lowercased extension equals it) /      *)
(* (number of listed files), and 0.0 for every technology when no file is  *)
(* listed.  With 10 files of which 6 end in .go and go -> [.go], the       *)
(* score of go is 0.6.                                                     *)
(***************************************************************************)
GoOnlyRegistry ==
    [auto_detection |->
        [detection_methods |->
            [file_extensions |-> [patterns |-> [go |-> <<ExtGo>>]]]]]

TenFiles ==
    { <<AppB, MainGo>>, <<AppB, Cmd, MainGo>>, <<AppB, Src, MainGo>>,
      <<AppB, Cmd, Cmd, MainGo>>, <<AppB, Cmd, Src, MainGo>>,
      <<AppB, Src, Cmd, MainGo>>,
      <<AppB, GoMod>>, <<AppB, PackageJson>>, <<AppB, TsconfigJson>>,
      <<AppB, Src, PackageJson>> }

\* The pairs (position in T's extension list, file) that agree.
ExtensionHits(extensions, files) ==
    {p \in (1..Len(extensions)) \X files :
        Lower(Suffix(Name(p[2]))) = extensions[p[1]]}

C8_FileExtensionSignal ==
    /\ (HasResult /\ "file_extensions" \in DOMAIN result.detection_methods) =>
          /\ DOMAIN result.detection_methods.file_extensions
                = DOMAIN RegistryPatterns("file_extensions")
          /\ \A T \in DOMAIN RegistryPatterns("file_extensions") :
                result.detection_methods.file_extensions[T] =
                    IF all_files = {} THEN Zero
                    ELSE Float(Cardinality(ExtensionHits(
                                RegistryPatterns("file_extensions")[T], all_files)),
                             Cardinality(all_files))
    /\ Cardinality(TenFiles) = 10
    /\ DetectByFileExtensions(NewDetector(GoOnlyRegistry), TenFiles)
          = [go |-> Float(3, 5)]

\* A listing of two files, one of them UTIL.GO, in which go scores 1/2.
C8_Witness ==
    /\ HasResult
    /\ "file_extensions" \in DOMAIN result.detection_methods
    /\ <<AppA, Src, UtilGO>> \in all_files
    /\ Cardinality(all_files) = 2
    /\ "go" \in DOMAIN result.detection_methods.file_extensions
    /\ result.detection_methods.file_extensions["go"] = Float(1, 2)

(***************************************************************************)
(* C9.  ConfigFileSignal(T) = (number of T's markers for which at least    *)
(* one listed file matches) / (number of markers configured for T), each   *)
(* marker counting at most once, and 0.0 when T has no markers.  With the  *)
(* markers package.json and tsconfig.json and only package.json present    *)
(* the score is 0.5.                                                       *)
(***************************************************************************)
MarkerMatches(file_path, marker) ==
    /\ ~PathMatchRaises(marker)
    /\ (NameEquals(file_path, marker) \/ PathMatch(file_path, marker))

MarkersPresent(markers, files) ==
    {i \in 1..Len(markers) : \E f \in files : MarkerMatches(f, markers[i])}

C9_ConfigFileSignal ==
    HasResult =>
        /\ DOMAIN result.detection_methods.configuration_files
              = DOMAIN RegistryPatterns("configuration_files")
        /\ \A T \in DOMAIN RegistryPatterns("configuration_files") :
              LET markers == RegistryPatterns("configuration_files")[T]
              IN  result.detection_methods.configuration_files[T] =
                      IF Len(markers) = 0 THEN Zero
                      ELSE Float(Cardinality(MarkersPresent(markers, all_files)),
                               Len(markers))

\* node with the markers package.json and tsconfig.json, only package.json
\* listed: 0.5.
C9_Witness ==
    /\ HasResult
    /\ RegistryPatterns("configuration_files") = CfgPatterns1
    /\ all_files = {<<AppA, PackageJson>>}
    /\ result.detection_methods.configuration_files["node"] = Float(1, 2)

(***************************************************************************)
(* C10.  Adding to the listed files a file that matches one of T's         *)
(* configured markers never lowers T's ConfigFileSignal score: the score   *)
(* on the listing plus the file, where that listing has one, is at least   *)
(* the score detect returned.                                              *)
(***************************************************************************)
C10_ConfigFileSignalMonotone ==
    HasResult =>
        \A T \in DOMAIN RegistryPatterns("configuration_files") :
            \A f \in FileUniverse :
                LET markers == RegistryPatterns("configuration_files")[T]
                IN  (/\ IsPrefix(codebase_root, f)
                     /\ ~DetectByConfigurationFilesRaises(Self, all_files \cup {f})
                     /\ \E i \in 1..Len(markers) : MarkerMatches(f, markers[i])) =>
                        FGeq(DetectByConfigurationFiles(Self, all_files \cup {f})[T],
                             result.detection_methods.configuration_files[T])

\* A detection on a non-empty listing after which a marker file that is
\* still missing would raise the technology's score.
C10_Witness ==
    /\ HasResult
    /\ \E T \in DOMAIN RegistryPatterns("configuration_files") :
          \E f \in FileUniverse \ all_files :
              /\ IsPrefix(codebase_root, f)
              /\ \E i \in 1..Len(RegistryPatterns("configuration_files")[T]) :
                    MarkerMatches(f, RegistryPatterns("configuration_files")[T][i])
              /\ all_files # {}
              /\ ~DetectByConfigurationFilesRaises(Self, all_files \cup {f})
              /\ FLess(result.detection_methods.configuration_files[T],
                       DetectByConfigurationFiles(Self, all_files \cup {f})[T])

(***************************************************************************)
(* C11.  Whatever the registry document (a pattern list may name the same  *)
(* extension, marker or glob more than once) and whatever the codebase,    *)
(* every score in each of the three signal maps of the result returned by  *)
(* detect is a number between 0 and 1, both included.                      *)
(***************************************************************************)
InUnitRange(score) == FGeq(score, Zero) /\ FGeq(Float(1, 1), score)

C11_SignalScoresInUnitRange ==
    HasResult =>
        \A method \in DOMAIN result.detection_methods :
            \A T \in DOMAIN result.detection_methods[method] :
                InUnitRange(result.detection_methods[method][T])

(***************************************************************************)
(* C12.  The candidate list holds exactly one candidate for each           *)
(* technology that is a key of at least one signal map, and no other; a    *)
(* candidate's confidence is the sum, over the methods that were run, of   *)
(* the method's weight times the technology's score in the method's map,   *)
(* a technology that is not a key of a map counting 0 for that method; the *)
(* candidate's method_scores record those same scores.  The sum is the     *)
(* float sum, taken in the order file_extensions, configuration_files,     *)
(* directory_structure.                                                    *)
(***************************************************************************)
\* The weight the registry gives a method, or the default of the code.
RegistryWeight(method) ==
    LET auto == Get(templates, "auto_detection", EmptyDict)
        methods == Get(auto, "detection_methods", EmptyDict)
        settings == Get(methods, method, EmptyDict)
    IN  IF "weight" \in DOMAIN settings THEN settings.weight
        ELSE IF method = "configuration_files" THEN Float(2, 5) ELSE Float(3, 10)

\* The score of technology T under a method, 0 when the method was not run
\* or its map has no entry for T.
SignalScore(method, T) ==
    IF method \in DOMAIN result.detection_methods
       /\ T \in DOMAIN result.detection_methods[method]
    THEN result.detection_methods[method][T]
    ELSE Zero

SignalKeys ==
    UNION {DOMAIN result.detection_methods[method] :
              method \in DOMAIN result.detection_methods}

C12_OneCandidatePerTechnology ==
    HasResult =>
        /\ {confidence_scores[i].technology : i \in DOMAIN confidence_scores}
              = SignalKeys
        /\ Len(confidence_scores) = Cardinality(SignalKeys)
        /\ \A i \in DOMAIN confidence_scores :
              LET c == confidence_scores[i]
                  term(method) ==
                      FMul(SignalScore(method, c.technology), RegistryWeight(method))
              IN  /\ c.confidence =
                         FAdd(FAdd(term("file_extensions"),
                                   term("configuration_files")),
                              term("directory_structure"))
                  /\ DOMAIN c.method_scores =
                         {"file_extensions", "configuration_files",
                          "directory_structure"}
                  /\ \A method \in DOMAIN c.method_scores :
                         c.method_scores[method] = SignalScore(method, c.technology)

\* Two candidates, one of them for a technology that a map which was
\* produced has no entry for, with scores above 0 under two other methods.
C12_Witness ==
    /\ HasResult
    /\ Len(confidence_scores) = 2
    /\ \E i \in DOMAIN confidence_scores :
          LET T == confidence_scores[i].technology
          IN  /\ T \notin DOMAIN result.detection_methods["directory_structure"]
              /\ FLess(Zero, SignalScore("file_extensions", T))
              /\ FLess(Zero, SignalScore("configuration_files", T))
              /\ FLess(Zero, confidence_scores[i].confidence)

(***************************************************************************)
(* C13, as stated: if every score of every signal map is between 0 and 1   *)
(* and the three method weights are non-negative and add up to 1, then the *)
(* confidence of every candidate, and with it the confidence of the        *)
(* result that detect returns, is between 0 and 1.  The weights are those  *)
(* of the registry document (or the defaults): numbers written in          *)
(* hundredths, each held by the detector as the double nearest to it, and  *)
(* it is the written numbers that add up to 1.                             *)
(***************************************************************************)
Hundredths == [n \in 0..100 |-> Float(n, 100)]

WeightsSumToOne ==
    \E n1 \in 0..100 :
        /\ RegistryWeight("file_extensions") = Hundredths[n1]
        /\ \E n2 \in 0..(100 - n1) :
              /\ RegistryWeight("configuration_files") = Hundredths[n2]
              /\ RegistryWeight("directory_structure") = Hundredths[100 - n1 - n2]

ScoresInUnitRange ==
    \A method \in DOMAIN result.detection_methods :
        \A T \in DOMAIN result.detection_methods[method] :
            InUnitRange(result.detection_methods[method][T])

C13_ConfidenceInUnitRange ==
    (HasResult /\ ScoresInUnitRange /\ WeightsSumToOne) =>
        /\ \A i \in DOMAIN confidence_scores :
              InUnitRange(confidence_scores[i].confidence)
        /\ InUnitRange(result.confidence)

(***************************************************************************)
(* C14.  The order of candidates of equal confidence, and with it the      *)
(* detected technology when the tie is at the top and reaches the          *)
(* threshold, depends only on the inputs (registry, root, listing) and not *)
(* on the order in which the set of technology keys is iterated: whatever  *)
(* that order, the candidate list and the result are the ones returned.    *)
(***************************************************************************)
C14_TieOrderIndependentOfSetIteration ==
    HasResult =>
        \A order \in IterationOrders(SignalKeys) :
            /\ CalculateConfidenceScores(Self, result.detection_methods, order)
                  = confidence_scores
            /\ DetectTechnologyStack(Self, codebase_root, all_files, order)
                  = result

(***************************************************************************)
(* C15, as stated: with the registry fixed and the filesystem snapshot     *)
(* unchanged, two calls of detect on the same root return identical        *)
(* DetectionResults (detected technology, confidence, signal maps,         *)
(* configuration, fallback flag).  Registry, snapshot and root are all     *)
(* that is fixed: the other call may be made by the process of the         *)
(* recorded call or by another run of the program, whose string hash seed  *)
(* iterates the set of technology keys in its own order.                   *)
(***************************************************************************)
DetectAgain(seed_order, root) ==
    LET files == GetAllFiles(fs, root)
        detection_results == DetectionResults(Self, root, files)
    IN  DetectTechnologyStack(Self, root, files,
            SetIteration(AllTechnologies(detection_results), seed_order))

C15_DetectTwiceSameResult ==
    \A i \in 1..Len(calls) :
        calls[i].result # EmptyDict =>
            \A seed_order \in IterationOrders(TechnologyKeys(Self)) :
                DetectAgain(seed_order, calls[i].root) = calls[i].result

(***************************************************************************)
(* C16.  No state leaks from one call to the next: a detect call on a      *)
(* codebase B made after calls on another codebase A returns what the      *)
(* call on B returned when it was the first call of the freshly            *)
(* constructed detector.                                                   *)
(***************************************************************************)
C16_NoLeakBetweenCalls ==
    \A j \in 2..Len(calls) :
        (/\ calls[j].root = calls[1].root
         /\ \E k \in 2..(j - 1) : calls[k].root # calls[j].root) =>
            calls[j].result = calls[1].result

\* detect(B), detect(A), detect(B) with files in both codebases and
\* different results for A and B.
C16_Witness ==
    /\ Len(calls) = 3
    /\ calls[3].root = calls[1].root
    /\ calls[2].root # calls[1].root
    /\ \A root \in Roots : GetAllFiles(fs, root) # {}
    /\ calls[2].result # calls[1].result
    /\ calls[3].result = calls[1].result

(***************************************************************************)
(* C17.  No call of detect, get_configured_patterns or validate changes    *)
(* the loaded registry (templates, method weights and patterns, threshold, *)
(* fallback profile), and a call of get_configured_patterns or validate    *)
(* leaves the DetectionResult it is given as it was.                       *)
(***************************************************************************)
C17_RegistryAndResultUnchanged ==
    [][/\ detector = "ready" =>
             /\ templates' = templates
             /\ detection_config' = detection_config
             /\ fallback_config' = fallback_config
       /\ (\/ validation' # <<>> /\ validation' # validation
           \/ patterns' # <<>> /\ patterns' # patterns) =>
             result' = result]_vars

\* All three operations have acted, detect more than once, on a detector
\* whose registry is still the document it loaded, the result's
\* configuration being the very profile of the registry.
C17_Witness ==
    /\ HasResult
    /\ Len(calls) >= 2
    /\ validation # <<>>
    /\ patterns # <<>>
    /\ templates = Registry1
    /\ detection_config = Registry1.auto_detection
    /\ fallback_config = Registry1.fallback_config
    /\ result.fallback_used = FALSE
    /\ result.configuration = templates.technology_templates[result.detected_technology]
    /\ patterns[1].file_patterns = result.configuration.file_patterns

(***************************************************************************)
(* C18.  For every DetectionResult given to it, validate returns           *)
(* confidence_level "high" when the confidence is at least 0.8, "medium"   *)
(* when it is at least 0.6 and below 0.8, "low" otherwise, whatever the    *)
(* registry's decision threshold and whatever fallback_used.               *)
(***************************************************************************)
C18_ConfidenceLevelScale ==
    validation # <<>> =>
        validation[1].confidence_level =
            IF FGeq(result.confidence, Float(4, 5)) THEN "high"
            ELSE IF FGeq(result.confidence, Float(3, 5)) /\ FLess(result.confidence, Float(4, 5))
                 THEN "medium"
            ELSE "low"

\* A result of confidence exactly 0.8 that is a fallback result, validated
\* by a detector whose decision threshold is 1: "high".
C18_Witness ==
    /\ validation # <<>>
    /\ result.confidence = Float(4, 5)
    /\ "fallback_used" \in DOMAIN result
    /\ result.fallback_used = TRUE
    /\ RegistryThreshold = Float(1, 1)
    /\ validation[1].confidence_level = "high"

(***************************************************************************)
(* C19.  For every DetectionResult given to it, validate returns is_valid  *)
(* false when the confidence is below 0.5 and true when it is 0.5 or       *)
(* more; no other field of the result (fallback_used, the signal maps)     *)
(* and no decision threshold has a say.                                    *)
(***************************************************************************)
C19_IsValidGate ==
    validation # <<>> =>
        validation[1].is_valid = FGeq(result.confidence, Float(1, 2))

\* A fallback result without signal maps, of confidence exactly 0.5 and so
\* below the detector's decision threshold: valid.
C19_Witness ==
    /\ validation # <<>>
    /\ result.confidence = Float(1, 2)
    /\ "fallback_used" \in DOMAIN result
    /\ result.fallback_used = TRUE
    /\ result.detection_methods = EmptyDict
    /\ FLess(result.confidence, RegistryThreshold)
    /\ validation[1].is_valid = TRUE

(***************************************************************************)
(* C20.  As stated: validate on a DetectionResult of confidence 0.55       *)
(* returns confidence_level "low" and is_valid false.                      *)
(***************************************************************************)
C20_LowAndInvalidAt055 ==
    (validation # <<>> /\ result.confidence = Float(11, 20)) =>
        /\ validation[1].confidence_level = "low"
        /\ validation[1].is_valid = FALSE

(***************************************************************************)
(* C20, amended.  validate on a DetectionResult of confidence 0.55         *)
(* returns confidence_level "low" and is_valid true: 0.55 is below the     *)
(* 0.6 of "medium" and not below the 0.5 of the validity gate.             *)
(***************************************************************************)
C20_LowAndValidAt055 ==
    (validation # <<>> /\ result.confidence = Float(11, 20)) =>
        /\ validation[1].confidence_level = "low"
        /\ validation[1].is_valid = TRUE

C20_Witness ==
    /\ validation # <<>>
    /\ result.confidence = Float(11, 20)
    /\ validation[1].confidence_level = "low"
    /\ validation[1].is_valid = TRUE

(***************************************************************************)
(* C21.  validate emits the warning "No configuration files detected",     *)
(* with its recommendation, exactly when no configuration-file match was   *)
(* observed: when every technology's score in the result's                 *)
(* configuration_files map is 0, the empty map and the absent map          *)
(* included; it does not emit it when some score is above 0.               *)
(***************************************************************************)
InList(x, list) == \E i \in DOMAIN list : list[i] = x

\* The configuration_files map of a result, empty when the result has none.
ConfigurationFilesMap(detection_result) ==
    LET detection_methods ==
            IF "detection_methods" \in DOMAIN detection_result
            THEN detection_result.detection_methods ELSE EmptyDict
    IN  IF "configuration_files" \in DOMAIN detection_methods
        THEN detection_methods.configuration_files ELSE EmptyDict

ZeroConfigurationMatches(detection_result) ==
    \A T \in DOMAIN ConfigurationFilesMap(detection_result) :
        ConfigurationFilesMap(detection_result)[T] = Zero

C21_NoConfigWarningOnZeroMatches ==
    validation # <<>> =>
        /\ InList("No configuration files detected", validation[1].warnings)
              <=> ZeroConfigurationMatches(result)
        /\ InList("Consider adding configuration files for better detection",
                  validation[1].recommendations)
              <=> ZeroConfigurationMatches(result)

(***************************************************************************)
(* C22.  validate emits the low-confidence warning with its                *)
(* recommendation exactly when the confidence is below 0.5, and the        *)
(* fallback warning with its recommendation exactly when fallback_used is  *)
(* true; each condition is judged on its own, so a result that meets both  *)
(* gets both pairs.                                                        *)
(***************************************************************************)
ResultFallbackUsed ==
    "fallback_used" \in DOMAIN result /\ result.fallback_used = TRUE

C22_LowConfidenceAndFallbackPairs ==
    validation # <<>> =>
        /\ InList("Low confidence in technology detection", validation[1].warnings)
              <=> FLess(result.confidence, Float(1, 2))
        /\ InList("Consider manually specifying the technology stack",
                  validation[1].recommendations)
              <=> FLess(result.confidence, Float(1, 2))
        /\ InList("Using generic fallback configuration", validation[1].warnings)
              <=> ResultFallbackUsed
        /\ InList("Technology-specific patterns may not be optimal",
                  validation[1].recommendations)
              <=> ResultFallbackUsed

\* A fallback result of confidence 0.49: both pairs.
C22_Witness ==
    /\ validation # <<>>
    /\ result.confidence = Float(49, 100)
    /\ ResultFallbackUsed
    /\ InList("Low confidence in technology detection", validation[1].warnings)
    /\ InList("Using generic fallback configuration", validation[1].warnings)
    /\ InList("Consider manually specifying the technology stack",
              validation[1].recommendations)
    /\ InList("Technology-specific patterns may not be optimal",
              validation[1].recommendations)

(***************************************************************************)
(* C23.  When the registry document is missing or malformed, constructing  *)
(* the detector fails before any detection can run: no instance exists     *)
(* then, nothing is ever returned by detect, get_configured_patterns or    *)
(* validate, and an instance that does exist holds a registry document     *)
(* that was loaded whole.                                                  *)
(***************************************************************************)
C23_LoadFailureIsFatal ==
    /\ detector = "load_error" =>
          /\ templates = EmptyDict
          /\ detection_config = EmptyDict
          /\ fallback_config = EmptyDict
          /\ returned = "none"
          /\ result = EmptyDict
          /\ validation = <<>>
          /\ patterns = <<>>
    /\ detector = "ready" =>
          \E i \in 1..Len(RegistryDocuments) :
              /\ templates = RegistryDocuments[i]
              /\ detection_config = RegistryDocuments[i].auto_detection
              /\ fallback_config =
                    IF "fallback_config" \in DOMAIN RegistryDocuments[i]
                    THEN RegistryDocuments[i].fallback_config ELSE EmptyDict
    /\ returned # "none" => detector = "ready"

\* The load has failed and the environment has gone on (codebases have
\* files): still nothing has been detected.
C23_Witness ==
    /\ detector = "load_error"
    /\ Cardinality(fs) = MaxFiles
    /\ returned = "none"

(***************************************************************************)
(* C24.  Edge inputs give zero scores, not errors.  detect raises only on  *)
(* a listing that has files and a marker that has no parts, so not on a    *)
(* root without files, a weight of 0 or an empty pattern list; and it      *)
(* returns a result in which the scores computed from the listing (file    *)
(* extensions, configuration files) are 0 when the root has no files, in   *)
(* which a technology whose pattern list for a method is empty has score 0 *)
(* under that method, whichever of the three, and in which a method of     *)
(* weight 0 adds nothing to any candidate's confidence.                    *)
(***************************************************************************)
RegistryHasEmptyMarker ==
    \E T \in DOMAIN RegistryPatterns("configuration_files") :
        \E i \in DOMAIN RegistryPatterns("configuration_files")[T] :
            RegistryPatterns("configuration_files")[T][i] = <<>>

\* The confidence of technology T without the contribution of `excluded`.
ConfidenceWithout(excluded, T) ==
    LET term(method) ==
            IF method = excluded THEN Zero
            ELSE FMul(SignalScore(method, T), RegistryWeight(method))
    IN  FAdd(FAdd(term("file_extensions"), term("configuration_files")),
             term("directory_structure"))

C24_EdgeInputsGiveZeroScores ==
    /\ returned = "error" => (all_files # {} /\ RegistryHasEmptyMarker)
    /\ HasResult =>
        /\ all_files = {} =>
              \A method \in DOMAIN result.detection_methods
                               \cap {"file_extensions", "configuration_files"} :
                  \A T \in DOMAIN result.detection_methods[method] :
                      result.detection_methods[method][T] = Zero
        /\ \A method \in DOMAIN result.detection_methods :
              \A T \in DOMAIN RegistryPatterns(method) :
                  RegistryPatterns(method)[T] = <<>> =>
                      /\ T \in DOMAIN result.detection_methods[method]
                      /\ result.detection_methods[method][T] = Zero
        /\ \A method \in {"file_extensions", "configuration_files",
                          "directory_structure"} :
              RegistryWeight(method) = Zero =>
                  \A i \in DOMAIN confidence_scores :
                      confidence_scores[i].confidence =
                          ConfidenceWithout(method, confidence_scores[i].technology)

\* All three edges at once: a root without files, an empty pattern list
\* under each method, a method of weight 0 whose score is above 0.
C24_Witness ==
    /\ HasResult
    /\ ~scan_error
    /\ all_files = {}
    /\ \A method \in {"file_extensions", "configuration_files",
                      "directory_structure"} :
          /\ method \in DOMAIN result.detection_methods
          /\ \E T \in DOMAIN RegistryPatterns(method) :
                /\ RegistryPatterns(method)[T] = <<>>
                /\ result.detection_methods[method][T] = Zero
    /\ \E method \in DOMAIN result.detection_methods :
          /\ RegistryWeight(method) = Zero
          /\ \E T \in DOMAIN result.detection_methods[method] :
                FLess(Zero, result.detection_methods[method][T])

(***************************************************************************)
(* C25.  The candidate list is ordered by confidence, highest first: of    *)
(* two adjacent candidates the earlier has a confidence greater than or    *)
(* equal to the later's, so the first candidate has the highest            *)
(* confidence of all.                                                      *)
(***************************************************************************)
C25_CandidatesSortedDescending ==
    HasResult =>
        /\ \A i \in 1..(Len(confidence_scores) - 1) :
              FGeq(confidence_scores[i].confidence,
                   confidence_scores[i + 1].confidence)
        /\ \A i \in DOMAIN confidence_scores :
              FGeq(confidence_scores[1].confidence, confidence_scores[i].confidence)

\* Two candidates of different confidence, the set having yielded the
\* lesser one first: the sort has put it second.
C25_Witness ==
    /\ HasResult
    /\ Len(confidence_scores) = 2
    /\ FLess(confidence_scores[2].confidence, confidence_scores[1].confidence)
    /\ set_order[1] = confidence_scores[2].technology

(***************************************************************************)
(* C26.  In every result that detect returns, fallback_used is true        *)
(* exactly when the configuration field is the fallback profile, provided  *)
(* the fallback profile differs from every technology template.            *)
(***************************************************************************)
FallbackDiffersFromTemplates ==
    \A T \in DOMAIN RegistryTemplates : RegistryTemplates[T] # RegistryFallback

C26_FallbackUsedIffFallbackProfile ==
    (HasResult /\ FallbackDiffersFromTemplates) =>
        (result.fallback_used <=> result.configuration = RegistryFallback)

(***************************************************************************)
(* C27.  Every result that detect returns is of one of two shapes.  With   *)
(* fallback_used true, detected_technology is "generic" and the            *)
(* confidence is 0.  With fallback_used false, the confidence is at least  *)
(* the confidence threshold and detected_technology is a technology key    *)
(* of the patterns of at least one detection method; a technology that     *)
(* only technology_templates names is never detected.                      *)
(***************************************************************************)
PatternTechnologies ==
    DOMAIN RegistryPatterns("file_extensions")
        \cup DOMAIN RegistryPatterns("configuration_files")
        \cup DOMAIN RegistryPatterns("directory_structure")

C27_ResultShapes ==
    HasResult =>
        /\ result.fallback_used = TRUE =>
              /\ result.detected_technology = "generic"
              /\ result.confidence = Zero
        /\ result.fallback_used = FALSE =>
              /\ FGeq(result.confidence, RegistryThreshold)
              /\ result.detected_technology \in PatternTechnologies

\* A match at exactly the threshold, of a technology that has patterns
\* and no template, in a registry whose templates name another one.
C27_Witness ==
    /\ HasResult
    /\ result.fallback_used = FALSE
    /\ result.confidence = RegistryThreshold
    /\ result.detected_technology \in PatternTechnologies
    /\ result.detected_technology \notin DOMAIN RegistryTemplates
    /\ RegistryTemplates # EmptyDict

(***************************************************************************)
(* C28.  validate applied to the result of detect: in a registry whose     *)
(* confidence threshold is at least 0.5, the default 0.7 included, the     *)
(* report's is_valid is true exactly when the result's fallback_used is    *)
(* false; and a fallback result is always reported with is_valid false,    *)
(* confidence_level "low" and both the low-confidence and the fallback     *)
(* warning.                                                                *)
(***************************************************************************)
C28_ValidateAfterDetect ==
    (HasResult /\ validation # <<>>) =>
        /\ FGeq(RegistryThreshold, Float(1, 2)) =>
              (validation[1].is_valid <=> result.fallback_used = FALSE)
        /\ result.fallback_used = TRUE =>
              /\ validation[1].is_valid = FALSE
              /\ validation[1].confidence_level = "low"
              /\ InList("Low confidence in technology detection",
                        validation[1].warnings)
              /\ InList("Using generic fallback configuration",
                        validation[1].warnings)

\* A match at confidence 0.5 under a threshold of exactly 0.5, validated:
\* the report is valid.
C28_Witness ==
    /\ HasResult
    /\ validation # <<>>
    /\ RegistryThreshold = Float(1, 2)
    /\ result.fallback_used = FALSE
    /\ result.confidence = Float(1, 2)
    /\ validation[1].is_valid = TRUE

\* The other case: a fallback result of a registry with the default
\* threshold, validated.
C28_FallbackReported ==
    /\ HasResult
    /\ validation # <<>>
    /\ ThresholdIsDefault
    /\ result.fallback_used = TRUE
    /\ validation[1].is_valid = FALSE
    /\ Len(validation[1].warnings) >= 2

(***************************************************************************)
(* C29.  With auto_detection.enabled false, detect still computes the      *)
(* configuration-file and the directory-structure signal and still         *)
(* applies the threshold decision; only the file_extensions map is         *)
(* missing from the result's detection_methods, and file extensions add    *)
(* nothing to any technology's confidence.                                 *)
(***************************************************************************)
RegistryDisabled ==
    LET auto == Get(templates, "auto_detection", EmptyDict)
    IN  "enabled" \in DOMAIN auto /\ auto.enabled = FALSE

C29_DisabledSkipsOnlyFileExtensions ==
    (HasResult /\ RegistryDisabled) =>
        /\ DOMAIN result.detection_methods =
              {"configuration_files", "directory_structure"}
        /\ DOMAIN result.detection_methods.configuration_files
              = DOMAIN RegistryPatterns("configuration_files")
        /\ \A T \in DOMAIN RegistryPatterns("configuration_files") :
              LET markers == RegistryPatterns("configuration_files")[T]
              IN  result.detection_methods.configuration_files[T] =
                      IF Len(markers) = 0 THEN Zero
                      ELSE Float(Cardinality(MarkersPresent(markers, all_files)),
                               Len(markers))
        /\ DOMAIN result.detection_methods.directory_structure
              = DOMAIN RegistryPatterns("directory_structure")
        /\ \A i \in DOMAIN confidence_scores :
              /\ confidence_scores[i].confidence =
                    ConfidenceWithout("file_extensions",
                                      confidence_scores[i].technology)
              /\ confidence_scores[i].method_scores["file_extensions"] = Zero
        /\ Matched =>
              /\ result.fallback_used = FALSE
              /\ result.detected_technology = TopCandidate.technology
              /\ result.confidence = TopCandidate.confidence
        /\ ~Matched =>
              /\ result.fallback_used = TRUE
              /\ result.detected_technology = "generic"

\* Disabled, and the two remaining signals alone carry a technology over
\* the threshold, its files having a configured extension.
C29_Witness ==
    /\ HasResult
    /\ RegistryDisabled
    /\ Matched
    /\ result.fallback_used = FALSE
    /\ FLess(Zero, result.detection_methods.configuration_files[result.detected_technology])
    /\ FLess(Zero, DetectByFileExtensions(Self, all_files)[result.detected_technology])

(***************************************************************************)
(* C30.  In every report of validate the warnings and the recommendations  *)
(* are lists of one length, from 0 to 3, the i-th recommendation being     *)
(* the one that belongs to the i-th warning; and the report has no         *)
(* warning exactly when the confidence is at least 0.5, fallback_used is   *)
(* false and the configuration_files map is not empty.                     *)
(***************************************************************************)
RecommendationFor(warning) ==
    CASE warning = "Low confidence in technology detection" ->
            "Consider manually specifying the technology stack"
      [] warning = "Using generic fallback configuration" ->
            "Technology-specific patterns may not be optimal"
      [] warning = "No configuration files detected" ->
            "Consider adding configuration files for better detection"
      [] OTHER -> "none"

C30_WarningsPairedWithRecommendations ==
    validation # <<>> =>
        /\ Len(validation[1].warnings) = Len(validation[1].recommendations)
        /\ Len(validation[1].warnings) \in 0..3
        /\ \A i \in DOMAIN validation[1].warnings :
              validation[1].recommendations[i] =
                  RecommendationFor(validation[1].warnings[i])
        /\ validation[1].warnings = <<>> <=>
              /\ FGeq(result.confidence, Float(1, 2))
              /\ ~ResultFallbackUsed
              /\ ConfigurationFilesMap(result) # EmptyDict

\* All three warnings, each with its recommendation at the same index.
C30_Witness ==
    /\ validation # <<>>
    /\ Len(validation[1].warnings) = 3
    /\ Len(validation[1].recommendations) = 3
    /\ FLess(result.confidence, Float(1, 2))
    /\ ResultFallbackUsed
    /\ ConfigurationFilesMap(result) = EmptyDict
    /\ \A i \in 1..3 :
          validation[1].recommendations[i] =
              RecommendationFor(validation[1].warnings[i])

====
